---- MODULE Spec2Model ----
(***************************************************************************)
(* Autotiling engine of game-build-tools: the adjacency rule catalog and   *)
(* its matcher (level/adjacency.rs), the Neighborhood7x7 window and the    *)
(* LevelLayer algebra built on it (level/mod.rs), and the window functions *)
(* the build script feeds to convolve (game/build.rs).                     *)
(*                                                                         *)
(* Rust indices are kept 0-based: a catalog index i is element i + 1 of    *)
(* the TLA+ sequence.  Option<T> is a sequence of length 0 or 1.           *)
(***************************************************************************)
EXTENDS Integers, Sequences, FiniteSets, TLC

VARIABLES
  pc,            \* position of the driver: "start" before a call, "done" after
  rules,         \* the catalog the matcher iterates over
  neighborhood,  \* the observed 3x3 booleans handed to match_rule
  hits,          \* catalog indices at which the equality test of the loop held
  best_match,    \* the Option<usize> match_rule returned
  layer,         \* the LevelLayer an operation is called on
  call,          \* the operation called and its arguments
  self_,         \* the layer convolve ran over (the mask, under autotile_with)
  windows,       \* per cell, the Neighborhood7x7 convolve handed to its closure
  fed,           \* per cell, the [bool; 9] canonical_adjacency gave the matcher
  found,         \* per cell, what the matcher returned
  out,           \* the LevelLayer the operation returned
  other,         \* the second layer handed to zip_with
  mid,           \* the layer between two chained operations
  steps,         \* operations chained so far
  tile_mapping,      \* TileSheet: tile id -> position
  tile_inv_mapping,  \* TileSheet: position -> tile id
  log,           \* the calls made on the sheet, in order
  layout,        \* LevelSpec: the layout image, a colour per pixel
  color_map,     \* LevelSpec: the (colour, tile position) registrations
  result,        \* what compile or render returned
  window,        \* a Neighborhood7x7 written and read through its accessors
  state,         \* AttackController: the AttackState
  event,         \* the AttackControllerEvent the last update returned
  room_pool,     \* RoomManager: the room specs rooms are spawned from
  rooms,         \* RoomManager: position -> ActiveRoom
  current_room   \* RoomManager: the position of the room the player is in

matchVars == <<rules, neighborhood, hits, best_match>>
layerVars == <<layer, call, self_, windows, fed, found, out>>
chainVars == <<other, mid, steps>>
sheetVars == <<tile_mapping, tile_inv_mapping, log>>
compileVars == <<layout, color_map, result>>

gameVars == <<state, event, room_pool, rooms, current_room>>

vars == <<pc, matchVars, layerVars, chainVars, sheetVars, compileVars, window,
          gameVars>>

----------------------------------------------------------------------------
(* Bounds of the model.                                                    *)

\* longest synthetic catalog handed to the matcher
MaxCatalogLen == 2
\* most cells (width * height) of a layer
MaxCells == 4
\* most cells of each of the two layers handed to zip_with
MaxPairCells == 2
\* most cells of the layer a chain of operations starts from
MaxChainCells == 2
\* most operations in a chain
MaxChain == 2
\* most calls made on one tile sheet
MaxSheetCalls == 3
\* greatest tile id handed to register
MaxTileId == 2
\* most cells of a layer autotiled and rendered with a canonical sheet
MaxRenderCells == 2
\* most pixels of a layout image
MaxPixels == 3
\* greatest offset, in either direction, handed to the window accessors
MaxOffset == 4
\* most wall and door cells of a layout the collision layer is built from
MaxTiles == 2
\* greatest delta_time of one update, in ticks
MaxDelta == 2
\* greatest time a windup accumulates and greatest Duration(..) intended
MaxTime == 6
\* greatest duration handed to make_staggered, in ticks
MaxStagger == 3

\* rooms a RoomManager holds, and length of its room_pool
MaxRooms == 2
MaxPool == 2

----------------------------------------------------------------------------
(* Option<T>                                                               *)

None == <<>>
Some(x) == <<x>>
is_some(o) == Len(o) = 1
unwrap(o) == o[1]

----------------------------------------------------------------------------
(* level/adjacency.rs                                                      *)

ADJACENCY_RULES ==
  <<
    <<FALSE, FALSE, FALSE, FALSE, TRUE, TRUE, FALSE, TRUE, TRUE>>,
    <<FALSE, TRUE, TRUE, FALSE, TRUE, TRUE, FALSE, TRUE, TRUE>>,
    <<FALSE, TRUE, TRUE, FALSE, TRUE, TRUE, FALSE, FALSE, FALSE>>,
    <<FALSE, TRUE, TRUE, TRUE, TRUE, TRUE, TRUE, TRUE, TRUE>>,
    <<TRUE, TRUE, TRUE, TRUE, TRUE, TRUE, FALSE, TRUE, TRUE>>,
    <<FALSE, FALSE, FALSE, TRUE, TRUE, TRUE, TRUE, TRUE, TRUE>>,
    <<TRUE, TRUE, TRUE, TRUE, TRUE, TRUE, TRUE, TRUE, TRUE>>,
    <<TRUE, TRUE, TRUE, TRUE, TRUE, TRUE, FALSE, FALSE, FALSE>>,
    <<TRUE, TRUE, FALSE, TRUE, TRUE, TRUE, TRUE, TRUE, TRUE>>,
    <<TRUE, TRUE, TRUE, TRUE, TRUE, TRUE, TRUE, TRUE, FALSE>>,
    <<FALSE, FALSE, FALSE, TRUE, TRUE, FALSE, TRUE, TRUE, FALSE>>,
    <<TRUE, TRUE, FALSE, TRUE, TRUE, FALSE, TRUE, TRUE, FALSE>>,
    <<TRUE, TRUE, FALSE, TRUE, TRUE, FALSE, FALSE, FALSE, FALSE>>,
    <<FALSE, FALSE, FALSE, FALSE, TRUE, FALSE, FALSE, FALSE, FALSE>>,
    <<FALSE, TRUE, FALSE, TRUE, TRUE, TRUE, FALSE, TRUE, FALSE>>,
    <<FALSE, FALSE, FALSE, FALSE, TRUE, TRUE, FALSE, TRUE, FALSE>>,
    <<FALSE, TRUE, FALSE, FALSE, TRUE, TRUE, FALSE, FALSE, FALSE>>,
    <<FALSE, FALSE, FALSE, FALSE, TRUE, FALSE, FALSE, TRUE, FALSE>>,
    <<FALSE, TRUE, FALSE, FALSE, TRUE, FALSE, FALSE, TRUE, FALSE>>,
    <<FALSE, TRUE, FALSE, FALSE, TRUE, FALSE, FALSE, FALSE, FALSE>>,
    <<FALSE, FALSE, FALSE, TRUE, TRUE, FALSE, FALSE, TRUE, FALSE>>,
    <<FALSE, TRUE, FALSE, TRUE, TRUE, FALSE, FALSE, FALSE, FALSE>>,
    <<FALSE, TRUE, TRUE, TRUE, TRUE, TRUE, TRUE, TRUE, FALSE>>,
    <<TRUE, TRUE, FALSE, TRUE, TRUE, TRUE, FALSE, TRUE, TRUE>>,
    <<FALSE, FALSE, FALSE, FALSE, TRUE, TRUE, FALSE, FALSE, FALSE>>,
    <<FALSE, FALSE, FALSE, TRUE, TRUE, TRUE, FALSE, TRUE, TRUE>>,
    <<FALSE, TRUE, TRUE, TRUE, TRUE, TRUE, FALSE, FALSE, FALSE>>,
    <<FALSE, TRUE, FALSE, FALSE, TRUE, TRUE, FALSE, TRUE, TRUE>>,
    <<FALSE, TRUE, TRUE, FALSE, TRUE, TRUE, FALSE, TRUE, FALSE>>,
    <<FALSE, FALSE, FALSE, TRUE, TRUE, TRUE, FALSE, FALSE, FALSE>>,
    <<FALSE, FALSE, FALSE, TRUE, TRUE, TRUE, TRUE, TRUE, FALSE>>,
    <<TRUE, TRUE, FALSE, TRUE, TRUE, TRUE, FALSE, FALSE, FALSE>>,
    <<FALSE, TRUE, FALSE, TRUE, TRUE, FALSE, TRUE, TRUE, FALSE>>,
    <<TRUE, TRUE, FALSE, TRUE, TRUE, FALSE, FALSE, TRUE, FALSE>>,
    <<FALSE, FALSE, FALSE, TRUE, TRUE, FALSE, FALSE, FALSE, FALSE>>,
    <<FALSE, TRUE, TRUE, TRUE, TRUE, TRUE, FALSE, TRUE, TRUE>>,
    <<TRUE, TRUE, TRUE, TRUE, TRUE, TRUE, FALSE, TRUE, FALSE>>,
    <<FALSE, TRUE, FALSE, FALSE, TRUE, TRUE, FALSE, TRUE, FALSE>>,
    <<FALSE, TRUE, FALSE, TRUE, TRUE, TRUE, FALSE, FALSE, FALSE>>,
    <<TRUE, TRUE, FALSE, TRUE, TRUE, TRUE, TRUE, TRUE, FALSE>>,
    <<FALSE, TRUE, FALSE, TRUE, TRUE, TRUE, TRUE, TRUE, TRUE>>,
    <<FALSE, FALSE, FALSE, TRUE, TRUE, TRUE, FALSE, TRUE, FALSE>>,
    <<FALSE, TRUE, FALSE, TRUE, TRUE, FALSE, FALSE, TRUE, FALSE>>,
    <<FALSE, TRUE, FALSE, TRUE, TRUE, TRUE, FALSE, TRUE, TRUE>>,
    <<FALSE, TRUE, TRUE, TRUE, TRUE, TRUE, FALSE, TRUE, FALSE>>,
    <<FALSE, TRUE, FALSE, TRUE, TRUE, TRUE, TRUE, TRUE, FALSE>>,
    <<TRUE, TRUE, FALSE, TRUE, TRUE, TRUE, FALSE, TRUE, FALSE>>
  >>

\* The raw rules are 9 cells, row-major: top-left, top, top-right, left,
\* center, right, bottom-left, bottom, bottom-right.
RuleCells == 1..Len(ADJACENCY_RULES[1])

Min(a, b) == IF a <= b THEN a ELSE b

RECURSIVE count_true(_, _)
count_true(rule, k) ==
  IF k > Len(rule) THEN 0
  ELSE (IF rule[k] THEN 1 ELSE 0) + count_true(rule, k + 1)

\* rule.iter().filter(|&&x| x).count()
rule_complexity(rule) == count_true(rule, 1)

\* the comparison leaving the four corner cells out
rule_matches_edges(nb, rule) ==
  \A k \in (1..Min(Len(nb), Len(rule))) \ {1, 3, 7, 9} : nb[k] = rule[k]

\* the comparison written with any() in place of all()
rule_matches_any(nb, rule) ==
  \E k \in 1..Min(Len(nb), Len(rule)) : nb[k] = rule[k]

\* neighborhood.iter().zip(as_vec).all(|(&n, r)| n == r)
rule_matches(nb, rule) ==
  \A k \in 1..Min(Len(nb), Len(rule)) : nb[k] = rule[k]

\* the body of the for loop of match_rule, from catalog index i - 1 on
RECURSIVE match_loop(_, _, _, _, _)
match_loop(catalog, nb, i, max_complexity, best) ==
  IF i > Len(catalog) THEN best
  ELSE IF rule_matches(nb, catalog[i])
          /\ rule_complexity(catalog[i]) > max_complexity
       THEN match_loop(catalog, nb, i + 1,
                       rule_complexity(catalog[i]), Some(i - 1))
       ELSE match_loop(catalog, nb, i + 1, max_complexity, best)

\* match_rule, with the catalog it iterates over as a parameter
match_rule(catalog, nb) == match_loop(catalog, nb, 1, 0, None)

\* the matcher level/mod.rs imports: the one matcher of adjacency.rs, over
\* the shipped catalog
match_adjacency_rule(nb) == match_rule(ADJACENCY_RULES, nb)

\* catalog indices whose rule passes the equality test of the loop
matching(catalog, nb) ==
  {i \in 0..(Len(catalog) - 1) : rule_matches(nb, catalog[i + 1])}

----------------------------------------------------------------------------
(* Rule fix-up as the specification describes it (no such transform is in  *)
(* adjacency.rs): the corner cells an absent edge turns into wildcards.    *)

\* cells 1, 3, 7, 9 are the corners; 2, 6, 8, 4 the top, right, bottom and
\* left edges
wildcards(rule) ==
  (IF ~rule[2] THEN {1, 3} ELSE {})
  \cup (IF ~rule[6] THEN {3, 9} ELSE {})
  \cup (IF ~rule[8] THEN {7, 9} ELSE {})
  \cup (IF ~rule[4] THEN {1, 7} ELSE {})

\* a raw rule as a form of present and absent cells
raw_form(rule) == [k \in RuleCells |-> IF rule[k] THEN "present" ELSE "absent"]

\* one promotion: when the edge is absent its two corners become wildcards
promote(form, edge, corners) ==
  IF form[edge] = "absent"
  THEN [k \in RuleCells |-> IF k \in corners THEN "wildcard" ELSE form[k]]
  ELSE form

\* fix-up promoting a corner only when both of its edges are absent
fixup_both(form) ==
  [k \in RuleCells |->
     IF \/ k = 1 /\ form[2] = "absent" /\ form[4] = "absent"
        \/ k = 3 /\ form[2] = "absent" /\ form[6] = "absent"
        \/ k = 7 /\ form[8] = "absent" /\ form[4] = "absent"
        \/ k = 9 /\ form[8] = "absent" /\ form[6] = "absent"
     THEN "wildcard" ELSE form[k]]

\* the four promotions in the order top, right, bottom, left
fixup(form) ==
  promote(promote(promote(promote(form, 2, {1, 3}), 6, {3, 9}), 8, {7, 9}),
          4, {1, 7})

\* wildcard-aware equality of an observed neighbourhood and a raw rule
wildcard_matches(nb, rule) ==
  \A k \in RuleCells \ wildcards(rule) : nb[k] = rule[k]

----------------------------------------------------------------------------
(* Neighborhood7x7 (level/mod.rs)                                          *)

WindowCells == 7 * 7
Offsets == -3..3

Neighborhood7x7_default == [k \in 1..WindowCells |-> None]

get(n, dx, dy) ==
  IF dx \notin Offsets \/ dy \notin Offsets THEN None
  ELSE n[((dy + 3) * 7 + (dx + 3)) + 1]

\* set with the two offsets exchanged in the index
set_transposed(n, dx, dy, value) ==
  IF dx \notin Offsets \/ dy \notin Offsets THEN n
  ELSE [n EXCEPT ![((dx + 3) * 7 + (dy + 3)) + 1] = value]

\* set with the row stride dropped from the index
set_no_stride(n, dx, dy, value) ==
  IF dx \notin Offsets \/ dy \notin Offsets THEN n
  ELSE [n EXCEPT ![((dy + 3) + (dx + 3)) + 1] = value]

set(n, dx, dy, value) ==
  IF dx \notin Offsets \/ dy \notin Offsets THEN n
  ELSE [n EXCEPT ![((dy + 3) * 7 + (dx + 3)) + 1] = value]

\* center reading the cell to the left of the centre
center_left(n) == get(n, -1, 0)

center(n) == get(n, 0, 0)

\* the 7 values of row dy, from the slice data[start_idx..start_idx + 7]
Neighborhood7x7_row(n, dy) ==
  IF dy \notin Offsets THEN [i \in 1..7 |-> None]
  ELSE [i \in 1..7 |-> n[((dy + 3) * 7 + (i - 1)) + 1]]

\* col returning the row of the same number
Neighborhood7x7_col_as_row(n, dx) == Neighborhood7x7_row(n, dx)

\* the 7 values of column dx, col[dy + 3] = data[(dy + 3) * 7 + (dx + 3)]
Neighborhood7x7_col(n, dx) ==
  IF dx \notin Offsets THEN [i \in 1..7 |-> None]
  ELSE [i \in 1..7 |-> n[(((i - 1 - 3) + 3) * 7 + (dx + 3)) + 1]]

\* the 49 pairs ((dx, dy), value), dy outermost
Neighborhood7x7_iter(n) ==
  [k \in 1..WindowCells |->
     LET dy == ((k - 1) \div 7) - 3
         dx == ((k - 1) % 7) - 3
     IN <<<<dx, dy>>, n[((dy + 3) * 7 + (dx + 3)) + 1]>>]

----------------------------------------------------------------------------
(* LevelLayer (level/mod.rs): data is an Array2 of shape (height, width),  *)
(* indexed [[row, col]].                                                   *)

\* LevelLayer::new building the array with shape (width, height)
LevelLayer_new_swapped(width, height) ==
  [nrows |-> width, ncols |-> height,
   data |-> [p \in (0..(width - 1)) \X (0..(height - 1)) |-> 0]]

LevelLayer_new(width, height) ==
  [nrows |-> height, ncols |-> width,
   data |-> [p \in (0..(height - 1)) \X (0..(width - 1)) |-> 0]]

Cells(l) == (0..(l.nrows - 1)) \X (0..(l.ncols - 1))

----------------------------------------------------------------------------
(* The closure of canonical_adjacency                                      *)

\* get_at comparing with 0 instead of 1
get_at_nonzero(n, pad_with_adjacent, dx, dy) ==
  IF is_some(get(n, dx, dy)) THEN unwrap(get(n, dx, dy)) # 0
  ELSE pad_with_adjacent

\* the get_at closure of canonical_adjacency
get_at(n, pad_with_adjacent, dx, dy) ==
  IF is_some(get(n, dx, dy)) THEN unwrap(get(n, dx, dy)) = 1
  ELSE pad_with_adjacent

neighborhood_adjacency(n, pad_with_adjacent) ==
  << get_at(n, pad_with_adjacent, -1, -1),
     get_at(n, pad_with_adjacent, 0, -1),
     get_at(n, pad_with_adjacent, 1, -1),
     get_at(n, pad_with_adjacent, -1, 0),
     get_at(n, pad_with_adjacent, 0, 0),
     get_at(n, pad_with_adjacent, 1, 0),
     get_at(n, pad_with_adjacent, -1, 1),
     get_at(n, pad_with_adjacent, 0, 1),
     get_at(n, pad_with_adjacent, 1, 1) >>

\* the tile id written without the + 1 offset
adjacency_tile_no_offset(n, pad_with_adjacent) ==
  LET maybe_rule == match_adjacency_rule(neighborhood_adjacency(n, pad_with_adjacent))
  IN IF is_some(maybe_rule) THEN unwrap(maybe_rule) ELSE 0

\* the closure canonical_adjacency hands to convolve
adjacency_tile(n, pad_with_adjacent) ==
  LET maybe_rule == match_adjacency_rule(neighborhood_adjacency(n, pad_with_adjacent))
  IN IF is_some(maybe_rule) THEN unwrap(maybe_rule) + 1 ELSE 0

----------------------------------------------------------------------------
(* The closures build_level_basic hands to convolve (game/build.rs)        *)

wall_locations(n) ==
  IF get(n, 0, 0) = Some(1)
     /\ get(n, 0, -1) = Some(1)
     /\ get(n, 0, 1) # Some(1)
     /\ is_some(get(n, 0, 1))
  THEN 1 ELSE 0

ao_locations(n) ==
  LET top_value == IF is_some(get(n, 0, -1)) THEN unwrap(get(n, 0, -1))
                   ELSE unwrap(get(n, 0, 0))
  IN IF top_value = 1 THEN 0 ELSE 1

door_shadow(n) ==
  IF get(n, 0, 0) = Some(2)
  THEN IF ~is_some(get(n, 0, 1)) THEN 1
       ELSE IF ~is_some(get(n, 1, 0)) THEN 2
       ELSE IF ~is_some(get(n, 0, -1)) THEN 3
       ELSE IF ~is_some(get(n, -1, 0)) THEN 4
       ELSE 0
  ELSE 0

\* the function that returns the window's centre value (0 for no value)
center_value(n) == IF is_some(center(n)) THEN unwrap(center(n)) ELSE 0

\* the closures handed to convolve
WindowFuncs ==
  {[fn |-> "wall_locations"], [fn |-> "ao_locations"], [fn |-> "door_shadow"],
   [fn |-> "center"]}

----------------------------------------------------------------------------
(* Closures are records naming the function and holding what it captures.  *)

\* func(&neighborhood)
apply_func(func, n) ==
  CASE func.fn = "wall_locations" -> wall_locations(n)
    [] func.fn = "ao_locations" -> ao_locations(n)
    [] func.fn = "door_shadow" -> door_shadow(n)
    [] func.fn = "center" -> center_value(n)
    [] func.fn = "adjacency_tile" -> adjacency_tile(n, func.pad_with_adjacent)

\* the closures build_level_basic hands to zip_with
ceiling_locations(original, wall) == IF wall = 1 THEN 0 ELSE original

collision(original, door_shadow_id) ==
  IF door_shadow_id > 0 THEN door_shadow_id + 1 ELSE original

\* the closures handed to zip_with: the two of build_level_basic and the
\* two projections
ZipFuncs ==
  {[fn |-> "first"], [fn |-> "second"], [fn |-> "ceiling_locations"],
   [fn |-> "collision"]}

\* func(tile_id, other_tile_id)
apply_zip(func, a, b) ==
  CASE func.fn = "first" -> a
    [] func.fn = "second" -> b
    [] func.fn = "ceiling_locations" -> ceiling_locations(a, b)
    [] func.fn = "collision" -> collision(a, b)

\* predicate(tile_id): |tile_id| tile_id == value, the predicate autotile_with
\* builds, and a caller's predicate given by the set of ids it accepts
apply_predicate(predicate, tile_id) ==
  CASE predicate.fn = "equals" -> tile_id = predicate.value
    [] predicate.fn = "accepts" -> tile_id \in predicate.ids

----------------------------------------------------------------------------
(* The layer operations                                                    *)

\* value_where leaving the old id where the predicate fails
value_where_keep(l, predicate, value) ==
  LET new_layer == LevelLayer_new(l.ncols, l.nrows)
  IN [new_layer EXCEPT !.data =
        [p \in Cells(l) |->
           IF apply_predicate(predicate, l.data[p]) THEN value ELSE l.data[p]]]

value_where(l, predicate, value) ==
  LET new_layer == LevelLayer_new(l.ncols, l.nrows)
  IN [new_layer EXCEPT !.data =
        [p \in Cells(l) |->
           IF apply_predicate(predicate, l.data[p]) THEN value ELSE 0]]

\* the two nested loops over dy and dx of convolve, flattened: iteration k
\* is dy = k div 7 - 3, dx = k mod 7 - 3
RECURSIVE fill_window(_, _, _, _, _)
fill_window(l, x, y, k, n) ==
  IF k = WindowCells THEN n
  ELSE LET dy == (k \div 7) - 3
           dx == (k % 7) - 3
           ny == y + dy
           nx == x + dx
       IN fill_window(l, x, y, k + 1,
            IF ny >= 0 /\ ny < l.nrows /\ nx >= 0 /\ nx < l.ncols
            THEN set(n, dx, dy, Some(l.data[<<ny, nx>>]))
            ELSE n)

\* the window convolve builds for cell (x, y)
window_at(l, x, y) == fill_window(l, x, y, 0, Neighborhood7x7_default)

convolve(l, func) ==
  LET new_layer == LevelLayer_new(l.ncols, l.nrows)
  IN [new_layer EXCEPT !.data =
        [p \in Cells(l) |-> apply_func(func, window_at(l, p[2], p[1]))]]

\* self.data.shape()
shape(l) == <<l.nrows, l.ncols>>

\* a failed assertion or panic!: the call returns nothing
Panic(message) == [panic |-> message]
is_layer(v) == DOMAIN v = {"nrows", "ncols", "data"}

\* zip_with with the arguments of the closure exchanged
zip_with_swapped(l, o, func) ==
  IF shape(l) # shape(o) THEN Panic("Layers must have the same shape")
  ELSE LET new_layer == LevelLayer_new(l.ncols, l.nrows)
       IN [new_layer EXCEPT !.data =
             [p \in Cells(l) |-> apply_zip(func, o.data[p], l.data[p])]]

\* zip_with without the assertion, reading 0 where the other layer has no cell
zip_with_padding(l, o, func) ==
  LET new_layer == LevelLayer_new(l.ncols, l.nrows)
  IN [new_layer EXCEPT !.data =
        [p \in Cells(l) |->
           apply_zip(func, l.data[p], IF p \in Cells(o) THEN o.data[p] ELSE 0)]]

zip_with(l, o, func) ==
  IF shape(l) # shape(o) THEN Panic("Layers must have the same shape")
  ELSE LET new_layer == LevelLayer_new(l.ncols, l.nrows)
       IN [new_layer EXCEPT !.data =
             [p \in Cells(l) |-> apply_zip(func, l.data[p], o.data[p])]]

canonical_adjacency(l, pad_with_adjacent) ==
  convolve(l, [fn |-> "adjacency_tile", pad_with_adjacent |-> pad_with_adjacent])

AbyssPolicy == {"PadWithSelf", "PadWithAir"}

\* the mask autotile_with thresholds out of the layer
autotile_mask(l, value) == value_where(l, [fn |-> "equals", value |-> value], 1)

\* autotile_with with the two arms of the match on abyss exchanged
autotile_with_swapped(l, value, abyss) ==
  canonical_adjacency(autotile_mask(l, value), abyss = "PadWithAir")

autotile_with(l, value, abyss) ==
  canonical_adjacency(autotile_mask(l, value), abyss = "PadWithSelf")

----------------------------------------------------------------------------
(* TileSheet: the two HashMaps, as functions with a finite domain          *)

Range(f) == {f[x] : x \in DOMAIN f}

\* HashMap::insert, which replaces the value of a key already present
insert(map, key, value) == (key :> value) @@ map

\* TileSheet::new and clean_clone
TileSheet_new == [tile_mapping |-> <<>>, tile_inv_mapping |-> <<>>]

is_sheet(v) == DOMAIN v = {"tile_mapping", "tile_inv_mapping"}

register(sheet, tile_id, position) ==
  IF tile_id \in DOMAIN sheet.tile_mapping
  THEN Panic("Tile ID already registered")
  ELSE IF position \in DOMAIN sheet.tile_inv_mapping
  THEN Panic("Position already registered for another tile ID")
  ELSE [sheet EXCEPT !.tile_mapping = insert(@, tile_id, position)]

\* allocate_tile_id numbering new tiles from one
allocate_tile_id_from_one(sheet, position) ==
  IF position \in DOMAIN sheet.tile_inv_mapping
  THEN [sheet |-> sheet, tile_id |-> sheet.tile_inv_mapping[position]]
  ELSE LET tile_id == Cardinality(DOMAIN sheet.tile_inv_mapping) + 1
       IN [sheet |-> [tile_mapping |-> insert(sheet.tile_mapping, tile_id, position),
                      tile_inv_mapping |->
                        insert(sheet.tile_inv_mapping, position, tile_id)],
           tile_id |-> tile_id]

\* the sheet after the call and the id the call returns
allocate_tile_id(sheet, position) ==
  IF position \in DOMAIN sheet.tile_inv_mapping
  THEN [sheet |-> sheet, tile_id |-> sheet.tile_inv_mapping[position]]
  ELSE LET tile_id == Cardinality(DOMAIN sheet.tile_inv_mapping)
       IN [sheet |-> [tile_mapping |-> insert(sheet.tile_mapping, tile_id, position),
                      tile_inv_mapping |->
                        insert(sheet.tile_inv_mapping, position, tile_id)],
           tile_id |-> tile_id]

clean_clone(sheet) == TileSheet_new

\* for row in row..5: the sheet after allocating the rest of column col
RECURSIVE autotile_rows(_, _, _, _)
autotile_rows(sheet, start, col, row) ==
  IF row >= 5 \/ ~is_sheet(sheet) THEN sheet
  ELSE autotile_rows(
         allocate_tile_id(sheet, <<start[1] + col, start[2] + row>>).sheet,
         start, col, row + 1)

\* for col in col..10 { for row in 0..5 { allocate_tile_id(..) } }
RECURSIVE autotile_cols(_, _, _)
autotile_cols(sheet, start, col) ==
  IF col >= 10 \/ ~is_sheet(sheet) THEN sheet
  ELSE autotile_cols(autotile_rows(sheet, start, col, 0), start, col + 1)

\* canonical_autotile without the allocation of the air tile
canonical_autotile_no_air(sheet, start, air) ==
  autotile_cols(clean_clone(sheet), start, 0)

\* the air tile first, then the region of 10 columns and 5 rows, column by
\* column
canonical_autotile(sheet, start, air) ==
  autotile_cols(allocate_tile_id(clean_clone(sheet), air).sheet, start, 0)

\* no position allocated
allocate_none(sheet, positions) == sheet

\* the sheet after allocating the positions of the sequence in order
RECURSIVE allocate_all(_, _)
allocate_all(sheet, positions) ==
  IF positions = <<>> THEN sheet
  ELSE allocate_all(allocate_tile_id(sheet, Head(positions)).sheet,
                    Tail(positions))

\* the sheet position of the tile image, when the id is mapped
grab_tile(sheet, tile_id) ==
  IF tile_id \in DOMAIN sheet.tile_mapping
  THEN Some(sheet.tile_mapping[tile_id]) ELSE None

\* Result<T, String>
Ok(value) == [ok |-> value]
Err(message) == [err |-> message]
is_ok(r) == DOMAIN r = {"ok"}

\* the image as the sheet position copied to each cell, or the error of the
\* first cell, row by row, whose tile id is not in the sheet
render(l, sheet) ==
  LET missing == {p \in Cells(l) : ~is_some(grab_tile(sheet, l.data[p]))}
  IN IF missing = {}
     THEN Ok([p \in Cells(l) |-> unwrap(grab_tile(sheet, l.data[p]))])
     ELSE LET first == CHOOSE p \in missing : \A q \in missing :
                          p[1] < q[1] \/ (p[1] = q[1] /\ p[2] <= q[2])
          IN Err(<<"Tile ID not found in tile sheet", l.data[first]>>)

----------------------------------------------------------------------------
(* LevelSpec: a layout image and the colour map, a Vec of (colour, tile)   *)

\* register without the check of the tile position
LevelSpec_register_any_tile(entries, color, tile_id) ==
  IF \E i \in DOMAIN entries : entries[i][1] = color
  THEN Panic("Color already registered")
  ELSE [color_map |-> Append(entries, <<color, tile_id>>)]

\* the spec with the entry pushed, or the panic
LevelSpec_register(entries, color, tile_id) ==
  IF \E i \in DOMAIN entries : entries[i][1] = color
  THEN Panic("Color already registered")
  ELSE IF \E i \in DOMAIN entries : entries[i][2] = tile_id
  THEN Panic("Tile ID already registered for another color")
  ELSE [color_map |-> Append(entries, <<color, tile_id>>)]

\* the tile of the first entry of the colour
find_map(entries, color) ==
  LET same == {i \in DOMAIN entries : entries[i][1] = color}
  IN IF same = {} THEN None
     ELSE Some(entries[CHOOSE i \in same : \A j \in same : i <= j][2])

\* the pixels in the order of layout.rows().enumerate() / row.enumerate()
pixel_order(image) ==
  [k \in 1..(image.nrows * image.ncols) |->
     <<(k - 1) \div image.ncols, (k - 1) % image.ncols>>]

\* the pixel loop going on past a pixel whose colour has no entry, the colour
\* recorded as used
RECURSIVE pixel_loop_skip(_, _, _, _)
pixel_loop_skip(image, entries, st, k) ==
  IF k > image.nrows * image.ncols \/ ~is_ok(st) THEN st
  ELSE LET p == pixel_order(image)[k]
           tile_id == find_map(entries, image.data[p])
       IN IF is_some(tile_id)
          THEN LET r == allocate_tile_id(st.ok.tile_sheet, unwrap(tile_id))
               IN pixel_loop_skip(image, entries,
                    Ok([tile_sheet |-> r.sheet,
                        layer |-> [st.ok.layer EXCEPT !.data[p] = r.tile_id],
                        used_colors |-> st.ok.used_colors \cup {image.data[p]}]),
                    k + 1)
          ELSE pixel_loop_skip(image, entries,
                    Ok([tile_sheet |-> st.ok.tile_sheet,
                        layer |-> st.ok.layer,
                        used_colors |-> st.ok.used_colors \cup {image.data[p]}]),
                    k + 1)

\* the pixel loop from pixel k on: the sheet, the layer and the used colours
\* after it, or the error of the first pixel whose colour has no entry
RECURSIVE pixel_loop(_, _, _, _)
pixel_loop(image, entries, st, k) ==
  IF k > image.nrows * image.ncols \/ ~is_ok(st) THEN st
  ELSE LET p == pixel_order(image)[k]
           tile_id == find_map(entries, image.data[p])
       IN IF is_some(tile_id)
          THEN LET r == allocate_tile_id(st.ok.tile_sheet, unwrap(tile_id))
               IN pixel_loop(image, entries,
                    Ok([tile_sheet |-> r.sheet,
                        layer |-> [st.ok.layer EXCEPT !.data[p] = r.tile_id],
                        used_colors |-> st.ok.used_colors \cup {image.data[p]}]),
                    k + 1)
          ELSE Err([message |-> "not registered in color map",
                    color |-> image.data[p], x |-> p[2], y |-> p[1]])

\* tile_sheet and layer before the pixel loop
before_pixels(image, entries) ==
  Ok([tile_sheet |-> allocate_all(TileSheet_new,
                                  [i \in DOMAIN entries |-> entries[i][2]]),
      layer |-> LevelLayer_new(image.ncols, image.nrows),
      used_colors |-> {}])

\* compile without the check that every registered colour was used
compile_allow_unused(image, entries) ==
  LET st == pixel_loop(image, entries, before_pixels(image, entries), 1)
  IN IF ~is_ok(st) THEN st
     ELSE Ok([tile_sheet |-> st.ok.tile_sheet, layer |-> st.ok.layer])

compile(image, entries) ==
  LET st == pixel_loop(image, entries, before_pixels(image, entries), 1)
      unused == {i \in DOMAIN entries : entries[i][1] \notin st.ok.used_colors}
      strangers == {c \in st.ok.used_colors :
                      \A i \in DOMAIN entries : entries[i][1] # c}
  IN IF ~is_ok(st) THEN st
     ELSE IF unused # {}
     THEN Err([message |-> "was not used in the layout",
               color |-> entries[CHOOSE i \in unused : \A j \in unused : i <= j][1]])
     ELSE IF strangers # {}
     THEN Err([message |-> "was used but not registered",
               color |-> CHOOSE c \in strangers : TRUE])
     ELSE Ok([tile_sheet |-> st.ok.tile_sheet, layer |-> st.ok.layer])

----------------------------------------------------------------------------
(* AttackController (game.rs). Time is counted in ticks of 0.05 s, so that *)
(* a delta_time can be shorter than each of the three durations.           *)

\* 0.2 s: the least windup, `if current_time < 0.2`
WindupTime == 4
\* 0.2 s: Attacking { duration_left: 0.2, .. }
AttackTime == 4
\* 0.1 s: Cooldown { duration_left: 0.1 }
CooldownTime == 2

Ready == [tag |-> "Ready"]
Windup(current_time) == [tag |-> "Windup", current_time |-> current_time]
Attacking(duration_left, windup_duration) ==
  [tag |-> "Attacking", duration_left |-> duration_left,
   windup_duration |-> windup_duration]
Cooldown(duration_left) == [tag |-> "Cooldown", duration_left |-> duration_left]
Staggered(duration_left) == [tag |-> "Staggered", duration_left |-> duration_left]

\* AttackIntention
AttackIntentions ==
  {[kind |-> "None"], [kind |-> "Perpetual"]}
  \cup {[kind |-> "Duration", duration |-> d] : d \in 0..MaxTime}

wants_to_finish_windup(current_time, delta_time, attack_intention) ==
  CASE attack_intention.kind = "None" -> TRUE
    [] attack_intention.kind = "Perpetual" -> FALSE
    [] attack_intention.kind = "Duration" ->
         current_time + delta_time >= attack_intention.duration

\* update without the least windup time
update_no_least_windup(st, delta_time, attack_intention) ==
  CASE st.tag = "Ready" ->
         IF attack_intention.kind # "None"
         THEN [state |-> Windup(0), event |-> "StartWindup"]
         ELSE [state |-> st, event |-> "None"]
    [] st.tag = "Windup" ->
         IF ~wants_to_finish_windup(st.current_time, delta_time, attack_intention)
         THEN [state |-> Windup(st.current_time + delta_time), event |-> "None"]
         ELSE [state |-> Attacking(AttackTime, st.current_time),
               event |-> "StartAttack"]
    [] st.tag = "Attacking" ->
         IF st.duration_left <= 0
         THEN [state |-> Cooldown(CooldownTime), event |-> "None"]
         ELSE [state |-> Attacking(st.duration_left - delta_time, st.windup_duration),
               event |-> "None"]
    [] st.tag = "Cooldown" ->
         IF st.duration_left <= 0
         THEN [state |-> Ready, event |-> "None"]
         ELSE [state |-> Cooldown(st.duration_left - delta_time), event |-> "None"]
    [] st.tag = "Staggered" ->
         IF st.duration_left <= 0
         THEN [state |-> Ready, event |-> "None"]
         ELSE [state |-> Staggered(st.duration_left - delta_time), event |-> "None"]

\* the state after update and the event it returns
update(st, delta_time, attack_intention) ==
  CASE st.tag = "Ready" ->
         IF attack_intention.kind # "None"
         THEN [state |-> Windup(0), event |-> "StartWindup"]
         ELSE [state |-> st, event |-> "None"]
    [] st.tag = "Windup" ->
         IF st.current_time < WindupTime
            \/ ~wants_to_finish_windup(st.current_time, delta_time, attack_intention)
         THEN [state |-> Windup(st.current_time + delta_time), event |-> "None"]
         ELSE [state |-> Attacking(AttackTime, st.current_time),
               event |-> "StartAttack"]
    [] st.tag = "Attacking" ->
         IF st.duration_left <= 0
         THEN [state |-> Cooldown(CooldownTime), event |-> "None"]
         ELSE [state |-> Attacking(st.duration_left - delta_time, st.windup_duration),
               event |-> "None"]
    [] st.tag = "Cooldown" ->
         IF st.duration_left <= 0
         THEN [state |-> Ready, event |-> "None"]
         ELSE [state |-> Cooldown(st.duration_left - delta_time), event |-> "None"]
    [] st.tag = "Staggered" ->
         IF st.duration_left <= 0
         THEN [state |-> Ready, event |-> "None"]
         ELSE [state |-> Staggered(st.duration_left - delta_time), event |-> "None"]

Max(a, b) == IF a >= b THEN a ELSE b

\* the state after make_staggered and the bool it returns
make_staggered(st, duration) ==
  IF st.tag = "Staggered"
  THEN [state |-> Staggered(Max(duration, st.duration_left)), returned |-> FALSE]
  ELSE [state |-> Staggered(duration), returned |-> TRUE]

----------------------------------------------------------------------------
(* ActiveRoom and RoomManager (game.rs). A GameLevelSpec is a record with  *)
(* its enemy_locations; an Enemy is its position and its health; the draw  *)
(* of room_pool.choose(&mut rng) is an input of change_room.               *)

\* Enemy::new: health 20.0
EnemyHealth == 20

Enemy_new(position) == [position |-> position, health |-> EnemyHealth]

ActiveRoom_from_spec(spec) ==
  [spec |-> spec,
   enemies |-> [i \in 1..Len(spec.enemy_locations) |->
                  Enemy_new(spec.enemy_locations[i])]]

RoomManager_new(spawn_spec) ==
  [room_pool |-> <<>>,
   rooms |-> insert(<<>>, <<0, 0, 0>>, ActiveRoom_from_spec(spawn_spec)),
   current_room |-> <<0, 0, 0>>]

add_room_spec(manager, spec) ==
  [manager EXCEPT !.room_pool = Append(@, spec)]

\* what room_pool.choose(&mut rng) can return
choose(pool) ==
  IF pool = <<>> THEN {None} ELSE {Some(pool[i]) : i \in 1..Len(pool)}

get_current_room(manager) ==
  IF manager.current_room \in DOMAIN manager.rooms
  THEN [room |-> manager.rooms[manager.current_room]]
  ELSE Panic("Current room not found")

\* change_room that spawns a room at a position that already holds one
change_room_respawn(manager, position, chosen) ==
  IF chosen = None
  THEN Panic("No room available for spawning")
  ELSE [manager EXCEPT
          !.rooms = insert(@, position, ActiveRoom_from_spec(chosen[1])),
          !.current_room = position]

change_room(manager, position, chosen) ==
  IF position \notin DOMAIN manager.rooms
  THEN IF chosen = None
       THEN Panic("No room available for spawning")
       ELSE [manager EXCEPT
               !.rooms = insert(@, position, ActiveRoom_from_spec(chosen[1])),
               !.current_room = position]
  ELSE [manager EXCEPT !.current_room = position]

\* the ids Game::update takes for a room exit
ExitIds == 2..5

\* new_position of Game::update for the id of the collider the player hit
new_position(current_position, id) ==
  CASE id = 2 -> <<current_position[1], current_position[2] - 1, current_position[3]>>
    [] id = 3 -> <<current_position[1] + 1, current_position[2], current_position[3]>>
    [] id = 4 -> <<current_position[1], current_position[2] + 1, current_position[3]>>
    [] id = 5 -> <<current_position[1] - 1, current_position[2], current_position[3]>>
    [] OTHER -> current_position

\* enemy.health -= damage, on the enemies of a room
hurt(room, i, damage) ==
  [room EXCEPT !.enemies[i].health = @ - damage]

----------------------------------------------------------------------------
(* Inputs                                                                  *)

Neighborhoods == [RuleCells -> BOOLEAN]

AllAbsent == [k \in RuleCells |-> FALSE]
AllPresent == [k \in RuleCells |-> TRUE]
Isolated == [k \in RuleCells |-> k = 5]

\* rules the synthetic catalogs are built from
RulePool == {AllAbsent, Isolated, AllPresent, ADJACENCY_RULES[1]}

Catalogs ==
  {ADJACENCY_RULES} \cup UNION {[1..n -> RulePool] : n \in 0..MaxCatalogLen}

Shapes ==
  {s \in (1..MaxCells) \X (1..MaxCells) : s[1] * s[2] <= MaxCells}

\* the ids compile gives the three colours build_level_basic registers, in
\* registration order
Air == 0
Wall == 1
Door == 2
TileIds == {Air, Wall, Door}

\* every layer of width s[1] and height s[2] with cells in TileIds
Layers ==
  UNION {
    {[nrows |-> s[2], ncols |-> s[1], data |-> d] :
       d \in [(0..(s[2] - 1)) \X (0..(s[1] - 1)) -> TileIds]}
    : s \in Shapes }

\* the layers of up to n cells over TileIds
LayersUpTo(n) ==
  UNION {
    {[nrows |-> s[2], ncols |-> s[1], data |-> d] :
       d \in [(0..(s[2] - 1)) \X (0..(s[1] - 1)) -> TileIds]}
    : s \in {t \in (1..n) \X (1..n) : t[1] * t[2] <= n} }

NoLayer == [nrows |-> 0, ncols |-> 0, data |-> <<>>]
NoCall == [op |-> "none"]

\* the parts of the state a specification does not use
IdleMatch ==
  /\ rules = ADJACENCY_RULES
  /\ neighborhood = AllAbsent
  /\ hits = {}
  /\ best_match = None

IdleChain == other = NoLayer /\ mid = NoLayer /\ steps = 0

IdleSheet == tile_mapping = <<>> /\ tile_inv_mapping = <<>> /\ log = <<>>

IdleCompile == layout = NoLayer /\ color_map = <<>> /\ result = None

IdleWindow == window = Neighborhood7x7_default

IdleGame ==
  /\ state = [tag |-> "Ready"]
  /\ event = "None"
  /\ room_pool = <<>>
  /\ rooms = <<>>
  /\ current_room = <<0, 0, 0>>

----------------------------------------------------------------------------
(* The matcher, called once on a catalog and an observed neighbourhood     *)

InitMatch ==
  /\ pc = "start"
  /\ rules \in Catalogs
  /\ neighborhood \in Neighborhoods
  /\ hits = {}
  /\ best_match = None
  /\ layer = NoLayer
  /\ call = NoCall
  /\ self_ = NoLayer
  /\ windows = <<>>
  /\ fed = <<>>
  /\ found = <<>>
  /\ out = NoLayer
  /\ IdleChain
  /\ IdleSheet
  /\ IdleCompile
  /\ IdleWindow
  /\ IdleGame

MatchRule ==
  /\ pc = "start"
  /\ call = NoCall
  /\ layer = NoLayer
  /\ hits' = matching(rules, neighborhood)
  /\ best_match' = match_rule(rules, neighborhood)
  /\ pc' = "done"
  /\ UNCHANGED <<rules, neighborhood, layerVars, chainVars, sheetVars, compileVars,
                 window, gameVars>>

NextMatch == MatchRule

SpecMatch == InitMatch /\ [][NextMatch]_vars

----------------------------------------------------------------------------
(* The layer algebra, one operation called on an input layer               *)

InitLayer ==
  /\ pc = "start"
  /\ rules = ADJACENCY_RULES
  /\ neighborhood = AllAbsent
  /\ hits = {}
  /\ best_match = None
  /\ layer \in Layers
  /\ call = NoCall
  /\ self_ = NoLayer
  /\ windows = <<>>
  /\ fed = <<>>
  /\ found = <<>>
  /\ out = NoLayer
  /\ IdleChain
  /\ IdleSheet
  /\ IdleCompile
  /\ IdleWindow
  /\ IdleGame

\* what convolve is observed to do over layer l
Windows(l) == [p \in Cells(l) |-> window_at(l, p[2], p[1])]

Convolve(f) ==
  /\ pc = "start"
  /\ layer # NoLayer
  /\ call' = [op |-> "convolve", func |-> f]
  /\ self_' = layer
  /\ windows' = Windows(layer)
  /\ out' = convolve(layer, f)
  /\ pc' = "done"
  /\ UNCHANGED <<matchVars, layer, fed, found, chainVars, sheetVars, compileVars,
                 window, gameVars>>

\* canonical_adjacency run over layer l: the observations and the result
Adjacency(l, pad_with_adjacent) ==
  /\ self_' = l
  /\ windows' = Windows(l)
  /\ \E nbs \in {[p \in Cells(l) |->
                    neighborhood_adjacency(window_at(l, p[2], p[1]), pad_with_adjacent)]} :
        /\ fed' = nbs
        /\ found' = [p \in Cells(l) |-> match_adjacency_rule(nbs[p])]

CanonicalAdjacency(pad_with_adjacent) ==
  /\ pc = "start"
  /\ layer # NoLayer
  /\ call' = [op |-> "canonical_adjacency", pad |-> pad_with_adjacent]
  /\ Adjacency(layer, pad_with_adjacent)
  /\ out' = canonical_adjacency(layer, pad_with_adjacent)
  /\ pc' = "done"
  /\ UNCHANGED <<matchVars, layer, chainVars, sheetVars, compileVars,
                 window, gameVars>>

AutotileWith(value, abyss) ==
  /\ pc = "start"
  /\ layer # NoLayer
  /\ call' = [op |-> "autotile_with", value |-> value, abyss |-> abyss]
  /\ Adjacency(autotile_mask(layer, value), abyss = "PadWithSelf")
  /\ out' = autotile_with(layer, value, abyss)
  /\ pc' = "done"
  /\ UNCHANGED <<matchVars, layer, chainVars, sheetVars, compileVars,
                 window, gameVars>>

NextLayer ==
  \/ \E f \in WindowFuncs : Convolve(f)
  \/ \E pad_with_adjacent \in BOOLEAN : CanonicalAdjacency(pad_with_adjacent)
  \/ \E value \in TileIds, abyss \in AbyssPolicy : AutotileWith(value, abyss)

SpecLayer == InitLayer /\ [][NextLayer]_vars

----------------------------------------------------------------------------
(* zip_with, called on two layers of any two shapes                        *)

InitZip ==
  /\ pc = "start"
  /\ IdleMatch
  /\ layer \in LayersUpTo(MaxPairCells)
  /\ other \in LayersUpTo(MaxPairCells)
  /\ call = NoCall
  /\ self_ = NoLayer
  /\ windows = <<>>
  /\ fed = <<>>
  /\ found = <<>>
  /\ out = NoLayer
  /\ mid = NoLayer
  /\ steps = 0
  /\ IdleSheet
  /\ IdleCompile
  /\ IdleWindow
  /\ IdleGame

ZipWith(f) ==
  /\ pc = "start"
  /\ other # NoLayer
  /\ call' = [op |-> "zip_with", func |-> f]
  /\ out' = zip_with(layer, other, f)
  /\ pc' = IF is_layer(out') THEN "done" ELSE "panicked"
  /\ UNCHANGED <<matchVars, layer, self_, windows, fed, found,
                 chainVars, sheetVars, compileVars,
                 window, gameVars>>

NextZip == \E f \in ZipFuncs : ZipWith(f)

SpecZip == InitZip /\ [][NextZip]_vars

----------------------------------------------------------------------------
(* value_where, then value_where on its result                             *)

\* every predicate over the tile ids of a layer
Predicates == {[fn |-> "accepts", ids |-> S] : S \in SUBSET TileIds}

InitThreshold ==
  /\ pc = "start"
  /\ IdleMatch
  /\ layer \in Layers
  /\ call = NoCall
  /\ self_ = NoLayer
  /\ windows = <<>>
  /\ fed = <<>>
  /\ found = <<>>
  /\ out = NoLayer
  /\ IdleChain
  /\ IdleSheet
  /\ IdleCompile
  /\ IdleWindow
  /\ IdleGame

\* layer.value_where(predicate, v)
ValueWhere(predicate, v) ==
  /\ pc = "start"
  /\ steps = 0
  /\ call' = [op |-> "value_where", predicate |-> predicate, v |-> v]
  /\ mid' = value_where(layer, predicate, v)
  /\ steps' = 1
  /\ pc' = "thresholded"
  /\ UNCHANGED <<matchVars, layer, self_, windows, fed, found, out, other,
                 sheetVars, compileVars,
                 window, gameVars>>

\* .value_where(|x| x == v, w) on the result
ValueWhereAgain(w) ==
  /\ pc = "thresholded"
  /\ steps = 1
  /\ call' = [op |-> "value_where", predicate |-> call.predicate, v |-> call.v,
               w |-> w]
  /\ out' = value_where(mid, [fn |-> "equals", value |-> call.v], w)
  /\ steps' = 2
  /\ pc' = "done"
  /\ UNCHANGED <<matchVars, layer, self_, windows, fed, found, other, mid,
                 sheetVars, compileVars,
                 window, gameVars>>

NextThreshold ==
  \/ \E predicate \in Predicates, v \in TileIds : ValueWhere(predicate, v)
  \/ \E w \in TileIds : ValueWhereAgain(w)

SpecThreshold == InitThreshold /\ [][NextThreshold]_vars

----------------------------------------------------------------------------
(* Chains of layer operations, each called on the result of the one before *)

InitChain ==
  /\ pc = "start"
  /\ IdleMatch
  /\ layer \in LayersUpTo(MaxChainCells)
  /\ call = NoCall
  /\ self_ = NoLayer
  /\ windows = <<>>
  /\ fed = <<>>
  /\ found = <<>>
  /\ out = NoLayer
  /\ IdleChain
  /\ IdleSheet
  /\ IdleCompile
  /\ IdleWindow
  /\ IdleGame

\* the layer the next operation of the chain is called on
Current == IF steps = 0 THEN layer ELSE out

\* one more operation, returning layer r, when called on Current
Chained(op, r) ==
  /\ pc \in {"start", "done"}
  /\ steps < MaxChain
  /\ is_layer(Current)
  /\ call' = [op |-> op]
  /\ mid' = Current
  /\ out' = r
  /\ steps' = steps + 1
  /\ pc' = IF is_layer(r) THEN "done" ELSE "panicked"
  /\ UNCHANGED <<matchVars, layer, self_, windows, fed, found, other,
                 sheetVars, compileVars,
                 window, gameVars>>

ChainValueWhere(predicate, value) ==
  Chained("value_where", value_where(Current, predicate, value))

ChainConvolve(f) == Chained("convolve", convolve(Current, f))

\* the result combined with the layer the chain started from, as
\* build_level_basic does
ChainZipWith(f) == Chained("zip_with", zip_with(layer, Current, f))

ChainCanonicalAdjacency(pad_with_adjacent) ==
  Chained("canonical_adjacency", canonical_adjacency(Current, pad_with_adjacent))

ChainAutotileWith(value, abyss) ==
  Chained("autotile_with", autotile_with(Current, value, abyss))

NextChain ==
  \/ \E id \in {Wall, Door} :
        ChainValueWhere([fn |-> "equals", value |-> id], id)
  \/ \E f \in {[fn |-> "wall_locations"], [fn |-> "door_shadow"]} :
        ChainConvolve(f)
  \/ \E f \in {[fn |-> "ceiling_locations"], [fn |-> "collision"]} :
        ChainZipWith(f)
  \/ \E pad_with_adjacent \in BOOLEAN : ChainCanonicalAdjacency(pad_with_adjacent)
  \/ \E abyss \in AbyssPolicy : ChainAutotileWith(Wall, abyss)

SpecChain == InitChain /\ [][NextChain]_vars

----------------------------------------------------------------------------
(* A tile sheet, filled by a sequence of register and allocate_tile_id     *)

\* the sheet positions build_level_basic registers
Positions == {<<0, 2>>, <<0, 1>>, <<0, 7>>}

InitSheet ==
  /\ pc = "start"
  /\ IdleMatch
  /\ layer = NoLayer
  /\ call = NoCall
  /\ self_ = NoLayer
  /\ windows = <<>>
  /\ fed = <<>>
  /\ found = <<>>
  /\ out = NoLayer
  /\ IdleChain
  /\ tile_mapping = TileSheet_new.tile_mapping
  /\ tile_inv_mapping = TileSheet_new.tile_inv_mapping
  /\ log = <<>>
  /\ IdleCompile
  /\ IdleWindow
  /\ IdleGame

\* the sheet held in the state
Sheet == [tile_mapping |-> tile_mapping, tile_inv_mapping |-> tile_inv_mapping]

Register(tile_id, position) ==
  /\ pc \in {"start", "done"}
  /\ Len(log) < MaxSheetCalls
  /\ \E r \in {register(Sheet, tile_id, position)} :
       /\ pc' = IF is_sheet(r) THEN "done" ELSE "panicked"
       /\ tile_mapping' = IF is_sheet(r) THEN r.tile_mapping ELSE tile_mapping
       /\ tile_inv_mapping' =
            IF is_sheet(r) THEN r.tile_inv_mapping ELSE tile_inv_mapping
  /\ log' = Append(log, [op |-> "register", tile_id |-> tile_id,
                          position |-> position])
  /\ UNCHANGED <<matchVars, layerVars, chainVars, compileVars, window, gameVars>>

AllocateTileId(position) ==
  /\ pc \in {"start", "done"}
  /\ Len(log) < MaxSheetCalls
  /\ \E r \in {allocate_tile_id(Sheet, position)} :
       /\ tile_mapping' = r.sheet.tile_mapping
       /\ tile_inv_mapping' = r.sheet.tile_inv_mapping
       /\ log' = Append(log, [op |-> "allocate_tile_id", position |-> position,
                               returned |-> r.tile_id])
  /\ pc' = "done"
  /\ UNCHANGED <<matchVars, layerVars, chainVars, compileVars, window, gameVars>>

NextSheet ==
  \/ \E tile_id \in 0..MaxTileId, position \in Positions :
        Register(tile_id, position)
  \/ \E position \in Positions : AllocateTileId(position)

SpecSheet == InitSheet /\ [][NextSheet]_vars

----------------------------------------------------------------------------
(* A canonical autotile sheet, and a layer autotiled and rendered with it  *)

\* the two region corners of build_level_basic
AutotileStarts == {<<1, 5>>, <<1, 0>>}
\* the air tile of build_level_basic, and one tile inside either region
AutotileAirs == {<<0, 2>>, <<1, 2>>, <<3, 7>>}

\* the base sheet: empty, or holding the positions compile allocated
BaseSheets == {TileSheet_new, allocate_all(TileSheet_new, <<<<0, 2>>, <<0, 1>>, <<0, 7>>>>)}

InitAutotile ==
  /\ pc = "start"
  /\ IdleMatch
  /\ layer \in LayersUpTo(MaxRenderCells)
  /\ call = NoCall
  /\ self_ = NoLayer
  /\ windows = <<>>
  /\ fed = <<>>
  /\ found = <<>>
  /\ out = NoLayer
  /\ IdleChain
  /\ \E base \in BaseSheets :
       /\ tile_mapping = base.tile_mapping
       /\ tile_inv_mapping = base.tile_inv_mapping
  /\ log = <<>>
  /\ IdleCompile
  /\ IdleWindow
  /\ IdleGame

\* let sheet = tile_sheet.canonical_autotile(start, air)
CanonicalAutotile(start, air) ==
  /\ pc = "start"
  /\ \E r \in {canonical_autotile(Sheet, start, air)} :
       /\ tile_mapping' = r.tile_mapping
       /\ tile_inv_mapping' = r.tile_inv_mapping
  /\ log' = <<[op |-> "canonical_autotile", start |-> start, air |-> air]>>
  /\ pc' = "sheet"
  /\ UNCHANGED <<matchVars, layerVars, chainVars, compileVars, window, gameVars>>

\* let autotiled = layer.autotile_with(value, abyss)
AutotileLayer(value, abyss) ==
  /\ pc = "sheet"
  /\ call' = [op |-> "autotile_with", value |-> value, abyss |-> abyss]
  /\ out' = autotile_with(layer, value, abyss)
  /\ pc' = "autotiled"
  /\ UNCHANGED <<matchVars, layer, self_, windows, fed, found, chainVars,
                 sheetVars, compileVars,
                 window, gameVars>>

\* autotiled.render(&sheet)
Render ==
  /\ pc = "autotiled"
  /\ result' = render(out, Sheet)
  /\ pc' = "rendered"
  /\ UNCHANGED <<matchVars, layerVars, chainVars, sheetVars, layout, color_map,
                 window, gameVars>>

NextAutotile ==
  \/ \E start \in AutotileStarts, air \in AutotileAirs :
        CanonicalAutotile(start, air)
  \/ \E abyss \in AbyssPolicy : AutotileLayer(Wall, abyss)
  \/ Render

SpecAutotile == InitAutotile /\ [][NextAutotile]_vars

----------------------------------------------------------------------------
(* A LevelSpec: colours registered one by one, then compile                *)

\* the three colours build_level_basic registers
Colors == {<<0, 0, 0>>, <<255, 0, 0>>, <<255, 255, 0>>}

\* layout images of up to n pixels
Images(n) ==
  UNION {
    {[nrows |-> s[2], ncols |-> s[1], data |-> d] :
       d \in [(0..(s[2] - 1)) \X (0..(s[1] - 1)) -> Colors]}
    : s \in {t \in (1..n) \X (1..n) : t[1] * t[2] <= n} }

InitCompile ==
  /\ pc = "start"
  /\ IdleMatch
  /\ layer = NoLayer
  /\ call = NoCall
  /\ self_ = NoLayer
  /\ windows = <<>>
  /\ fed = <<>>
  /\ found = <<>>
  /\ out = NoLayer
  /\ IdleChain
  /\ IdleSheet
  /\ layout \in Images(MaxPixels)
  /\ color_map = <<>>
  /\ result = None
  /\ IdleWindow
  /\ IdleGame

\* spec.register(color, tile_id)
RegisterColor(color, tile_id) ==
  /\ pc = "start"
  /\ \E r \in {LevelSpec_register(color_map, color, tile_id)} :
       IF DOMAIN r = {"panic"}
       THEN pc' = "panicked" /\ color_map' = color_map
       ELSE pc' = "start" /\ color_map' = r.color_map
  /\ UNCHANGED <<matchVars, layerVars, chainVars, sheetVars, layout, result,
                 window, gameVars>>

\* spec.compile()
Compile ==
  /\ pc = "start"
  /\ result' = compile(layout, color_map)
  /\ pc' = "compiled"
  /\ UNCHANGED <<matchVars, layerVars, chainVars, sheetVars, layout, color_map,
                 window, gameVars>>

NextCompile ==
  \/ \E color \in Colors, tile_id \in Positions : RegisterColor(color, tile_id)
  \/ Compile

SpecCompile == InitCompile /\ [][NextCompile]_vars

----------------------------------------------------------------------------
(* A Neighborhood7x7 written once and read through each of its accessors   *)

\* the windows convolve builds over the layers of one row and two columns,
\* and the fresh window
Windows7x7 ==
  {Neighborhood7x7_default} \cup
  UNION {{window_at(l, x, 0) : x \in 0..1} :
           l \in {m \in LayersUpTo(2) : m.ncols = 2}}

\* the offsets handed to the accessors, some of them outside -3..3
AnyOffsets == (-MaxOffset)..MaxOffset

InitWindow ==
  /\ pc = "start"
  /\ IdleMatch
  /\ layer = NoLayer
  /\ call = NoCall
  /\ self_ = NoLayer
  /\ windows = <<>>
  /\ fed = <<>>
  /\ found = <<>>
  /\ out = NoLayer
  /\ IdleChain
  /\ IdleSheet
  /\ IdleCompile
  /\ window \in Windows7x7
  /\ IdleGame

\* neighborhood.set(dx, dy, value)
Set(dx, dy, value) ==
  /\ pc = "start"
  /\ call' = [op |-> "set", dx |-> dx, dy |-> dy, value |-> value]
  /\ window' = set(window, dx, dy, value)
  /\ pc' = "written"
  /\ UNCHANGED <<matchVars, layer, self_, windows, fed, found, out, chainVars,
                 sheetVars, compileVars, gameVars>>

\* an accessor that reads the window and returns a value
Read(op, arg, returned) ==
  /\ pc \in {"start", "written"}
  /\ call' = [op |-> op, arg |-> arg, returned |-> returned]
  /\ pc' = "read"
  /\ UNCHANGED <<matchVars, layer, self_, windows, fed, found, out, chainVars,
                 sheetVars, compileVars, window, gameVars>>

Get(dx, dy) == Read("get", <<dx, dy>>, get(window, dx, dy))
Center == Read("center", <<>>, center(window))
Row(dy) == Read("row", <<dy>>, Neighborhood7x7_row(window, dy))
Col(dx) == Read("col", <<dx>>, Neighborhood7x7_col(window, dx))
Iter == Read("iter", <<>>, Neighborhood7x7_iter(window))

NextWindow ==
  \/ \E dx \in AnyOffsets, dy \in AnyOffsets,
          value \in {None, Some(Air), Some(Wall), Some(Door)} : Set(dx, dy, value)
  \/ \E dx \in {-MaxOffset, -3, 0, 3, MaxOffset},
          dy \in {-MaxOffset, -3, 0, 3, MaxOffset} : Get(dx, dy)
  \/ Center
  \/ \E dy \in AnyOffsets : Row(dy)
  \/ \E dx \in AnyOffsets : Col(dx)
  \/ Iter

SpecWindow == InitWindow /\ [][NextWindow]_vars

----------------------------------------------------------------------------
(* Fix-up of one raw rule, applied once and once more to its result        *)

InitFixup ==
  /\ pc = "start"
  /\ rules \in {<<rule>> : rule \in Neighborhoods}
  /\ neighborhood = AllAbsent
  /\ hits = {}
  /\ best_match = None
  /\ layer = NoLayer
  /\ call = NoCall
  /\ self_ = NoLayer
  /\ windows = <<>>
  /\ fed = <<>>
  /\ found = <<>>
  /\ out = NoLayer
  /\ IdleChain
  /\ IdleSheet
  /\ IdleCompile
  /\ IdleWindow
  /\ IdleGame

\* fixup(R)
Fixup ==
  /\ pc = "start"
  /\ call' = [op |-> "fixup", returned |-> fixup(raw_form(rules[1]))]
  /\ pc' = "fixed"
  /\ UNCHANGED <<matchVars, layer, self_, windows, fed, found, out, chainVars,
                 sheetVars, compileVars, window, gameVars>>

\* fixup(fixup(R))
FixupAgain ==
  /\ pc = "fixed"
  /\ call' = [op |-> "fixup_again", first |-> call.returned,
              returned |-> fixup(call.returned)]
  /\ pc' = "done"
  /\ UNCHANGED <<matchVars, layer, self_, windows, fed, found, out, chainVars,
                 sheetVars, compileVars, window, gameVars>>

NextFixup == Fixup \/ FixupAgain

SpecFixup == InitFixup /\ [][NextFixup]_vars

----------------------------------------------------------------------------
(* The collision layer build_level_basic makes of a level layer            *)

\* level layers of up to three rows and three columns, the smallest with a
\* cell that is not on the border
CollisionLayers ==
  UNION {
    {[nrows |-> s[2], ncols |-> s[1], data |-> d] :
       d \in {e \in [(0..(s[2] - 1)) \X (0..(s[1] - 1)) -> TileIds] :
                Cardinality({p \in DOMAIN e : e[p] # Air}) <= MaxTiles}}
    : s \in (1..3) \X (1..3) }

InitCollision ==
  /\ pc = "start"
  /\ IdleMatch
  /\ layer \in CollisionLayers
  /\ call = NoCall
  /\ self_ = NoLayer
  /\ windows = <<>>
  /\ fed = <<>>
  /\ found = <<>>
  /\ out = NoLayer
  /\ IdleChain
  /\ IdleSheet
  /\ IdleCompile
  /\ IdleWindow
  /\ IdleGame

\* door_shadow_layer = level_layer.convolve(..);
\* collision_layer = level_layer.zip_with(&door_shadow_layer, ..)
BuildCollision ==
  /\ pc = "start"
  /\ call' = [op |-> "collision_layer"]
  /\ \E door_shadow_layer \in {convolve(layer, [fn |-> "door_shadow"])} :
       /\ mid' = door_shadow_layer
       /\ out' = zip_with(layer, door_shadow_layer, [fn |-> "collision"])
  /\ pc' = "done"
  /\ UNCHANGED <<matchVars, layer, self_, windows, fed, found, other, steps,
                 sheetVars, compileVars, window, gameVars>>

NextCollision == BuildCollision

SpecCollision == InitCollision /\ [][NextCollision]_vars

----------------------------------------------------------------------------
(* An AttackController driven by update and make_staggered                 *)

InitAttack ==
  /\ pc = "start"
  /\ IdleMatch
  /\ layer = NoLayer
  /\ call = NoCall
  /\ self_ = NoLayer
  /\ windows = <<>>
  /\ fed = <<>>
  /\ found = <<>>
  /\ out = NoLayer
  /\ IdleChain
  /\ IdleSheet
  /\ IdleCompile
  /\ IdleWindow
  /\ state = Ready
  /\ event = "None"
  /\ room_pool = <<>>
  /\ rooms = <<>>
  /\ current_room = <<0, 0, 0>>

\* attack_controller.update(delta_time, attack_intention)
Update(delta_time, attack_intention) ==
  /\ state.tag = "Windup" => state.current_time + delta_time <= MaxTime
  /\ call' = [op |-> "update", delta_time |-> delta_time,
              attack_intention |-> attack_intention]
  /\ \E r \in {update(state, delta_time, attack_intention)} :
       state' = r.state /\ event' = r.event
  /\ pc' = "updated"
  /\ UNCHANGED <<matchVars, layer, self_, windows, fed, found, out, chainVars,
                 sheetVars, compileVars, window, room_pool, rooms, current_room>>

\* attack_controller.make_staggered(duration)
MakeStaggered(duration) ==
  /\ \E r \in {make_staggered(state, duration)} :
       /\ state' = r.state
       /\ call' = [op |-> "make_staggered", duration |-> duration,
                   returned |-> r.returned]
  /\ pc' = "staggered"
  /\ UNCHANGED <<matchVars, layer, self_, windows, fed, found, out, chainVars,
                 sheetVars, compileVars, window, event, room_pool, rooms,
                 current_room>>

NextAttack ==
  \/ \E delta_time \in 1..MaxDelta, attack_intention \in AttackIntentions :
        Update(delta_time, attack_intention)
  \/ \E duration \in 1..MaxStagger : MakeStaggered(duration)

SpecAttack == InitAttack /\ [][NextAttack]_vars

----------------------------------------------------------------------------
(* A RoomManager: the builder calls of Game::new, then the player hurting  *)
(* enemies of the current room and walking through exits                   *)

SpawnSpec == [name |-> "spawn", enemy_locations |-> <<<<1, 1>>>>]

\* the level specs the pool is filled from
PoolSpecs ==
  {[name |-> "base_0", enemy_locations |-> <<<<2, 1>>>>],
   [name |-> "base_1", enemy_locations |-> <<>>]}

\* what one attack of the player takes from an enemy
Damages == {EnemyHealth \div 2, EnemyHealth}

manager == [room_pool |-> room_pool, rooms |-> rooms,
            current_room |-> current_room]

InitRooms ==
  /\ pc = "building"
  /\ IdleMatch
  /\ layer = NoLayer
  /\ call = NoCall
  /\ self_ = NoLayer
  /\ windows = <<>>
  /\ fed = <<>>
  /\ found = <<>>
  /\ out = NoLayer
  /\ IdleChain
  /\ IdleSheet
  /\ IdleCompile
  /\ IdleWindow
  /\ state = Ready
  /\ event = "None"
  /\ \E m \in {RoomManager_new(SpawnSpec)} :
       /\ room_pool = m.room_pool
       /\ rooms = m.rooms
       /\ current_room = m.current_room

\* RoomManager::new(..).add_room_spec(spec), before the game runs
AddRoomSpec(spec) ==
  /\ pc = "building"
  /\ Len(room_pool) < MaxPool
  /\ \E m \in {add_room_spec(manager, spec)} :
       /\ room_pool' = m.room_pool
       /\ rooms' = m.rooms
       /\ current_room' = m.current_room
  /\ call' = [op |-> "add_room_spec", spec |-> spec]
  /\ pc' = "building"
  /\ UNCHANGED <<matchVars, layer, self_, windows, fed, found, out, chainVars,
                 sheetVars, compileVars, window, state, event>>

\* Game::update: the player's attack reaches enemy i of the current room
HurtEnemy(i, damage) ==
  /\ pc # "panicked"
  /\ \E r \in {get_current_room(manager)} :
       /\ "room" \in DOMAIN r
       /\ i \in DOMAIN r.room.enemies
       /\ r.room.enemies[i].health > 0
       /\ rooms' = [rooms EXCEPT ![current_room] = hurt(r.room, i, damage)]
  /\ call' = [op |-> "hurt", i |-> i, damage |-> damage]
  /\ pc' = "playing"
  /\ UNCHANGED <<matchVars, layer, self_, windows, fed, found, out, chainVars,
                 sheetVars, compileVars, window, state, event, room_pool,
                 current_room>>

\* Game::update: the player walks into the exit collider id
ChangeRoom(id, chosen) ==
  /\ pc # "panicked"
  /\ \E position \in {new_position(current_room, id)} :
       /\ position \in DOMAIN rooms \/ Cardinality(DOMAIN rooms) < MaxRooms
       /\ call' = [op |-> "change_room", position |-> position]
       /\ \E m \in {change_room(manager, position, chosen)} :
            IF "panic" \in DOMAIN m
            THEN pc' = "panicked" /\ UNCHANGED <<room_pool, rooms, current_room>>
            ELSE /\ pc' = "changed"
                 /\ room_pool' = m.room_pool
                 /\ rooms' = m.rooms
                 /\ current_room' = m.current_room
  /\ UNCHANGED <<matchVars, layer, self_, windows, fed, found, out, chainVars,
                 sheetVars, compileVars, window, state, event>>

NextRooms ==
  \/ \E spec \in PoolSpecs : AddRoomSpec(spec)
  \/ \E i \in DOMAIN rooms[current_room].enemies, damage \in Damages :
        HurtEnemy(i, damage)
  \/ \E id \in ExitIds, chosen \in choose(room_pool) : ChangeRoom(id, chosen)

SpecRooms == InitRooms /\ [][NextRooms]_vars

----------------------------------------------------------------------------
(* Properties of the matcher (SpecMatch)                                   *)

Matched == pc = "done" /\ call = NoCall

Complexity(i) == rule_complexity(rules[i + 1])

\* the matching rules of greatest complexity
Maximal == {i \in hits : \A j \in hits : Complexity(j) <= Complexity(i)}

Greatest(S) == CHOOSE i \in S : \A j \in S : j <= i

C3_WildcardAwareMatch ==
  Matched =>
     \A i \in 0..(Len(rules) - 1) :
        (i \in hits) <=> wildcard_matches(neighborhood, rules[i + 1])

----------------------------------------------------------------------------
(* Properties of the layer algebra (SpecLayer)                             *)

AdjacencyCall ==
  pc = "done" /\ call.op \in {"canonical_adjacency", "autotile_with"}

\* the pad_with_adjacent the call ran canonical_adjacency with
PadOf(c) ==
  IF c.op = "canonical_adjacency" THEN c.pad ELSE c.abyss = "PadWithSelf"

Inside(l, x, y) == y >= 0 /\ y < l.nrows /\ x >= 0 /\ x < l.ncols

C6_OccupiedCellMatched ==
  AdjacencyCall =>
     \A p \in Cells(self_) : self_.data[p] = 1 => out.data[p] # 0

\* C7: canonical_adjacency writes index + 1 where the matcher returned a
\* catalog index and 0 exactly where it returned None, so every output cell
\* lies in 0..(catalog length).
C7_IndexPlusOneOrZero ==
  AdjacencyCall =>
     \A p \in Cells(self_) :
        /\ is_some(found[p]) => out.data[p] = unwrap(found[p]) + 1
        /\ (out.data[p] = 0) <=> (found[p] = None)
        /\ out.data[p] \in 0..Len(ADJACENCY_RULES)

C7_Witness ==
  /\ AdjacencyCall
  /\ \E p, q \in Cells(self_) :
        /\ found[p] = None /\ out.data[p] = 0
        /\ is_some(found[q]) /\ out.data[q] = unwrap(found[q]) + 1

\* C8: the boolean canonical_adjacency feeds the matcher at each of the nine
\* positions (row-major, offsets -1..1) is (value = 1) inside the layer and
\* pad_with_adjacent outside it; the centre is never padded.
C8_FedBooleans ==
  AdjacencyCall =>
     \A p \in Cells(self_) :
        /\ fed[p][5] = (self_.data[p] = 1)
        /\ \A k \in 1..9 :
              LET dx == ((k - 1) % 3) - 1
                  dy == ((k - 1) \div 3) - 1
                  nx == p[2] + dx
                  ny == p[1] + dy
              IN fed[p][k] = IF Inside(self_, nx, ny)
                             THEN self_.data[<<ny, nx>>] = 1
                             ELSE PadOf(call)

\* a padded call over a layer where an in-layer neighbour holds a value that
\* is neither 0 nor 1
C8_Witness ==
  /\ AdjacencyCall
  /\ call.op = "canonical_adjacency"
  /\ call.pad
  /\ self_.ncols >= 2
  /\ self_.data[<<0, 0>>] = 1
  /\ self_.data[<<0, 1>>] = 2
  /\ fed[<<0, 0>>] = [k \in 1..9 |-> k # 6]

AllPresentIndex ==
  CHOOSE i \in 0..(Len(ADJACENCY_RULES) - 1) : ADJACENCY_RULES[i + 1] = AllPresent

AllOnes(l) == \A p \in Cells(l) : l.data[p] = 1

\* C9: autotile_with(1, PadWithSelf) on a layer of all 1 yields at every
\* cell the id (index of the all-present rule) + 1.
C9_UniformFullySurrounded ==
  (/\ pc = "done"
   /\ call.op = "autotile_with"
   /\ call.value = 1
   /\ call.abyss = "PadWithSelf"
   /\ AllOnes(layer)) =>
     /\ out.nrows = layer.nrows
     /\ out.ncols = layer.ncols
     /\ \A p \in Cells(layer) : out.data[p] = AllPresentIndex + 1

C9_Witness ==
  /\ pc = "done"
  /\ call.op = "autotile_with"
  /\ call.value = 1
  /\ call.abyss = "PadWithSelf"
  /\ AllOnes(layer)
  /\ layer.nrows >= 2
  /\ layer.ncols >= 2
  /\ \A p \in Cells(layer) : out.data[p] = AllPresentIndex + 1

\* C10: the window convolve hands to f for cell (x, y) holds, at every
\* offset in -3..3, Some(layer value) inside the layer and None outside it,
\* and the output cell is f of that window.
C10_ConvolveWindow ==
  pc = "done" =>
     \A p \in Cells(self_) :
        /\ \A dx \in Offsets, dy \in Offsets :
              get(windows[p], dx, dy) =
                 IF Inside(self_, p[2] + dx, p[1] + dy)
                 THEN Some(self_.data[<<p[1] + dy, p[2] + dx>>])
                 ELSE None
        /\ call.op = "convolve" => out.data[p] = apply_func(call.func, windows[p])

C10_Witness ==
  /\ pc = "done"
  /\ call.op = "convolve"
  /\ layer.ncols >= 4
  /\ get(windows[<<0, 0>>], 3, 0) = Some(2)
  /\ get(windows[<<0, 0>>], -1, 0) = None
  /\ get(windows[<<0, 3>>], -3, 0) = Some(layer.data[<<0, 0>>])

\* C11: convolve with the function that returns the window's centre value
\* yields a layer equal to the input layer, cell for cell.
C11_ConvolveCenterIsIdentity ==
  (pc = "done" /\ call.op = "convolve" /\ call.func.fn = "center") =>
     /\ out.nrows = layer.nrows
     /\ out.ncols = layer.ncols
     /\ \A p \in Cells(layer) : out.data[p] = layer.data[p]

\* a non-square layer holding a door and a wall, convolved with center
C11_Witness ==
  /\ pc = "done"
  /\ call.op = "convolve"
  /\ call.func.fn = "center"
  /\ layer.ncols >= 3
  /\ layer.data[<<0, 0>>] = Door
  /\ layer.data[<<0, 1>>] = Wall
  /\ out = layer

----------------------------------------------------------------------------
(* Properties of zip_with (SpecZip)                                        *)

\* C12: for layers of identical dimensions, cell (x, y) of zip_with(a, b, f)
\* is f(a[y][x], b[y][x]); with f the first projection the result is a, with
\* the second projection it is b.
C12_ZipWithCellwise ==
  (call.op = "zip_with" /\ pc # "start" /\ shape(layer) = shape(other)) =>
     /\ pc = "done"
     /\ shape(out) = shape(layer)
     /\ \A p \in Cells(layer) :
           out.data[p] = apply_zip(call.func, layer.data[p], other.data[p])
     /\ call.func.fn = "first" => out = layer
     /\ call.func.fn = "second" => out = other

C12_Witness ==
  /\ pc = "done"
  /\ call.op = "zip_with"
  /\ call.func.fn = "first"
  /\ layer.ncols = 2
  /\ layer # other
  /\ out = layer

\* C13: zip_with on two layers whose width or height differ ends in the
\* dimension-mismatch failure and returns no layer.
C13_ZipWithShapeMismatch ==
  (call.op = "zip_with" /\ pc # "start" /\ shape(layer) # shape(other)) =>
     /\ pc = "panicked"
     /\ ~is_layer(out)
     /\ out = Panic("Layers must have the same shape")

\* transposed shapes with the same number of cells
C13_Witness ==
  /\ pc = "panicked"
  /\ call.op = "zip_with"
  /\ shape(layer) = <<1, 2>>
  /\ shape(other) = <<2, 1>>

----------------------------------------------------------------------------
(* Properties of value_where (SpecThreshold)                               *)

\* C14: for v # 0, L.value_where(pred, v).value_where(x == v, w) equals
\* L.value_where(pred, w): every cell is w where pred held on the original
\* cell and 0 elsewhere.
C14_ThresholdTwice ==
  (pc = "done" /\ call.op = "value_where" /\ steps = 2 /\ call.v # 0) =>
     /\ out = value_where(layer, call.predicate, call.w)
     /\ shape(out) = shape(layer)
     /\ \A p \in Cells(layer) :
           out.data[p] = IF layer.data[p] \in call.predicate.ids THEN call.w ELSE 0

\* walls and doors thresholded to 2, then to 1, over a layer that also
\* holds air
C14_Witness ==
  /\ pc = "done"
  /\ steps = 2
  /\ call.predicate.ids = {Wall, Door}
  /\ call.v = 2
  /\ call.w = 1
  /\ layer.ncols = 3
  /\ layer.data[<<0, 0>>] = Air
  /\ layer.data[<<0, 1>>] = Wall
  /\ layer.data[<<0, 2>>] = Door
  /\ out.data[<<0, 0>>] = 0
  /\ out.data[<<0, 1>>] = 1
  /\ out.data[<<0, 2>>] = 1

----------------------------------------------------------------------------
(* Properties of chained operations (SpecChain)                            *)

\* C15: every layer produced by value_where, convolve, zip_with,
\* canonical_adjacency or autotile_with, after any chain of them, has the
\* width and height of the layer it was called on.
C15_ShapePreserved ==
  steps >= 1 =>
     /\ is_layer(out)
     /\ out.ncols = mid.ncols
     /\ out.nrows = mid.nrows
     /\ DOMAIN out.data = Cells(mid)
     /\ shape(out) = shape(layer)

\* a chain of MaxChain operations ending in zip_with over a layer of one
\* column and two rows
C15_Witness ==
  /\ steps = MaxChain
  /\ call.op = "zip_with"
  /\ layer.ncols = 1
  /\ layer.nrows = 2
  /\ shape(out) = <<2, 1>>

----------------------------------------------------------------------------
(* Properties of the tile sheet (SpecSheet)                                *)

LastCall(l) == l[Len(l)]

\* id maps to p exactly when p maps to id
MutualInverses(id_to_position, position_to_id) ==
  /\ \A id \in DOMAIN id_to_position :
       /\ id_to_position[id] \in DOMAIN position_to_id
       /\ position_to_id[id_to_position[id]] = id
  /\ \A p \in DOMAIN position_to_id :
       /\ position_to_id[p] \in DOMAIN id_to_position
       /\ id_to_position[position_to_id[p]] = p

NoSharedPosition(id_to_position) ==
  \A a, b \in DOMAIN id_to_position :
     id_to_position[a] = id_to_position[b] => a = b

\* C16: after any sequence of register and allocate_tile_id calls that did
\* not fail, the id-to-position map and the position-to-id map are mutual
\* inverses, no two ids share a position, and an allocation never changes
\* the position of an id that was already registered.
C16_MutualInverses ==
  [][pc' # "panicked" =>
       /\ MutualInverses(tile_mapping', tile_inv_mapping')
       /\ NoSharedPosition(tile_mapping')
       /\ LastCall(log').op = "allocate_tile_id" =>
            \A id \in DOMAIN tile_mapping :
               tile_mapping'[id] = tile_mapping[id]]_vars

AllocatedOnly(l) == \A i \in DOMAIN l : l[i].op = "allocate_tile_id"

\* the distinct positions of the calls of l, in the order of their first call
RECURSIVE FirstAllocated(_)
FirstAllocated(l) ==
  IF l = <<>> THEN <<>>
  ELSE LET before == FirstAllocated(SubSeq(l, 1, Len(l) - 1))
       IN IF LastCall(l).position \in Range(before) THEN before
          ELSE Append(before, LastCall(l).position)

\* C17: on a sheet populated only through allocate_tile_id the ids are
\* exactly 0..n-1 for n distinct positions, the k-th distinct position first
\* allocated has id k-1, and allocating an already allocated position
\* returns its existing id without changing either map.
C17_DenseFirstAllocationOrder ==
  [][AllocatedOnly(log') =>
       LET order == FirstAllocated(log')
           n == Len(order)
           last == LastCall(log')
       IN /\ DOMAIN tile_mapping' = 0..(n - 1)
          /\ DOMAIN tile_inv_mapping' = Range(order)
          /\ \A k \in 1..n :
               /\ tile_mapping'[k - 1] = order[k]
               /\ tile_inv_mapping'[order[k]] = k - 1
          /\ order[last.returned + 1] = last.position
          /\ last.position \in DOMAIN tile_inv_mapping =>
               /\ last.returned = tile_inv_mapping[last.position]
               /\ tile_mapping' = tile_mapping
               /\ tile_inv_mapping' = tile_inv_mapping]_vars

\* three allocations, the third of the position allocated first
C17_Witness ==
  /\ Len(log) = 3
  /\ AllocatedOnly(log)
  /\ log[1].position = log[3].position
  /\ log[2].position # log[1].position
  /\ log[3].returned = 0
  /\ DOMAIN tile_mapping = {0, 1}

\* C18: register(id, position) fails fatally whenever the id is already
\* mapped or the position is already mapped to an id, whether the earlier
\* entry was added by register or by allocate_tile_id.
C18_RegisterRejectsDuplicates ==
  [][(/\ LastCall(log').op = "register"
      /\ \/ LastCall(log').tile_id \in DOMAIN tile_mapping
         \/ LastCall(log').position \in Range(tile_mapping)
         \/ LastCall(log').position \in DOMAIN tile_inv_mapping)
     => pc' = "panicked"]_vars

----------------------------------------------------------------------------
(* Properties of the canonical autotile sheet (SpecAutotile)               *)

\* the positions of the region of 10 columns and 5 rows at start
Region(start) ==
  {<<start[1] + col, start[2] + row>> : col \in 0..9, row \in 0..4}

----------------------------------------------------------------------------
(* Properties of compile (SpecCompile)                                     *)

Registered(color) == \E i \in DOMAIN color_map : color_map[i][1] = color

EveryPixelRegistered == \A p \in Cells(layout) : Registered(layout.data[p])

EveryColorUsed ==
  \A i \in DOMAIN color_map :
     \E p \in Cells(layout) : layout.data[p] = color_map[i][1]

\* C20: compile returns a (sheet, layer) pair if and only if every pixel
\* colour of the layout is registered and every registered colour occurs in
\* at least one pixel; otherwise it returns an error and no layer, and for
\* an unregistered pixel the error names that pixel's colour and (x, y).
C20_CompileOkIffConsistent ==
  pc = "compiled" =>
     /\ is_ok(result) <=> (EveryPixelRegistered /\ EveryColorUsed)
     /\ is_ok(result) => DOMAIN result.ok = {"tile_sheet", "layer"}
     /\ ~is_ok(result) => DOMAIN result = {"err"}
     /\ ~EveryPixelRegistered =>
          /\ DOMAIN result = {"err"}
          /\ <<result.err.y, result.err.x>> \in Cells(layout)
          /\ result.err.color = layout.data[<<result.err.y, result.err.x>>]
          /\ ~Registered(result.err.color)

\* a layout of one row whose second pixel is the unregistered one
C20_Witness ==
  /\ pc = "compiled"
  /\ layout.ncols = 2
  /\ Len(color_map) = 1
  /\ Registered(layout.data[<<0, 0>>])
  /\ ~is_ok(result)
  /\ result.err.x = 1
  /\ result.err.y = 0

\* C21: whenever compile succeeds, for every pixel the sheet position of the
\* id stored in the layer cell is the tile position registered for the
\* pixel's colour, and two pixels get the same id exactly when they have the
\* same colour.
C21_CompileRoundTrip ==
  (pc = "compiled" /\ is_ok(result)) =>
     LET sheet == result.ok.tile_sheet
         compiled == result.ok.layer
     IN /\ Cells(compiled) = Cells(layout)
        /\ DOMAIN compiled.data = Cells(layout)
        /\ \A p \in Cells(layout) :
             /\ compiled.data[p] \in DOMAIN sheet.tile_mapping
             /\ \E i \in DOMAIN color_map :
                  /\ color_map[i][1] = layout.data[p]
                  /\ color_map[i][2] = sheet.tile_mapping[compiled.data[p]]
        /\ \A p, q \in Cells(layout) :
             compiled.data[p] = compiled.data[q] <=> layout.data[p] = layout.data[q]

\* red at (0, 1) and black at (0, 2) registered, the layout of two columns
\* and one row [red, black] compiled to the ids of (0, 1) and (0, 2)
C21_Witness ==
  /\ pc = "compiled"
  /\ color_map = <<<<<<255, 0, 0>>, <<0, 1>>>>, <<<<0, 0, 0>>, <<0, 2>>>>>>
  /\ layout.ncols = 2
  /\ layout.nrows = 1
  /\ layout.data[<<0, 0>>] = <<255, 0, 0>>
  /\ layout.data[<<0, 1>>] = <<0, 0, 0>>
  /\ is_ok(result)
  /\ result.ok.tile_sheet.tile_mapping[result.ok.layer.data[<<0, 0>>]] = <<0, 1>>
  /\ result.ok.tile_sheet.tile_mapping[result.ok.layer.data[<<0, 1>>]] = <<0, 2>>

\* C25: compile never returns the "was used but not registered" error; the
\* only errors are the per-pixel unregistered-colour error and the
\* unused-registered-colour error.
C25_UsedButNotRegisteredUnreachable ==
  (pc = "compiled" /\ ~is_ok(result)) =>
     /\ DOMAIN result = {"err"}
     /\ result.err.message \in
          {"not registered in color map", "was not used in the layout"}
     /\ result.err.message = "not registered in color map" <=> ~EveryPixelRegistered
     /\ result.err.message = "was not used in the layout" <=>
          (EveryPixelRegistered /\ ~EveryColorUsed)

\* an input that passes the pixel loop with two colours used and fails the
\* check of the unused colours
C25_Witness ==
  /\ pc = "compiled"
  /\ Len(color_map) = 3
  /\ EveryPixelRegistered
  /\ Cardinality({layout.data[p] : p \in Cells(layout)}) = 2
  /\ ~is_ok(result)
  /\ result.err.message = "was not used in the layout"

\* the registrations of build_level_basic, in their order
BuildRegistrations ==
  << <<<<0, 0, 0>>, <<0, 2>>>>, <<<<255, 0, 0>>, <<0, 1>>>>,
     <<<<255, 255, 0>>, <<0, 7>>>> >>

\* C26: compile numbers tile ids by registration order, not by pixel order:
\* the colour registered i-th (0-based) gets id i, so with the build
\* script's registrations air = 0, wall = 1, door = 2.
C26_IdsInRegistrationOrder ==
  (pc = "compiled" /\ is_ok(result)) =>
     /\ \A i \in DOMAIN color_map :
          /\ result.ok.tile_sheet.tile_mapping[i - 1] = color_map[i][2]
          /\ \A p \in Cells(layout) :
               layout.data[p] = color_map[i][1] => result.ok.layer.data[p] = i - 1
     /\ color_map = BuildRegistrations =>
          \A p \in Cells(layout) :
             result.ok.layer.data[p] =
                CASE layout.data[p] = <<0, 0, 0>> -> Air
                  [] layout.data[p] = <<255, 0, 0>> -> Wall
                  [] layout.data[p] = <<255, 255, 0>> -> Door

\* the build script's registrations and a layout whose pixels come door,
\* wall, air
C26_Witness ==
  /\ pc = "compiled"
  /\ color_map = BuildRegistrations
  /\ layout.ncols = 3
  /\ is_ok(result)
  /\ result.ok.layer.data[<<0, 0>>] = Door
  /\ result.ok.layer.data[<<0, 1>>] = Wall
  /\ result.ok.layer.data[<<0, 2>>] = Air

----------------------------------------------------------------------------
(* Properties of the window accessors (SpecWindow)                         *)

AllOffsets == Offsets \X Offsets

\* C22: set(dx, dy, v) with both offsets in -3..3 changes exactly the cell
\* (dx, dy), so that get(dx, dy) then returns v and every other one of the
\* 49 cells is unchanged; with either offset outside -3..3 it changes no
\* cell, and get with an out-of-range offset returns no value. A fresh
\* window has no value in all 49 cells.
C22_SetChangesOneCell ==
  [][/\ call'.op = "set" =>
          IF <<call'.dx, call'.dy>> \in AllOffsets
          THEN /\ get(window', call'.dx, call'.dy) = call'.value
               /\ \A o \in AllOffsets \ {<<call'.dx, call'.dy>>} :
                    get(window', o[1], o[2]) = get(window, o[1], o[2])
               /\ Len(window') = WindowCells
          ELSE /\ window' = window
               /\ get(window', call'.dx, call'.dy) = None
     /\ \A o \in (AnyOffsets \X AnyOffsets) \ AllOffsets :
          get(window', o[1], o[2]) = None
     /\ Len(Neighborhood7x7_default) = WindowCells
     /\ Cardinality(AllOffsets) = WindowCells
     /\ \A o \in AllOffsets : get(Neighborhood7x7_default, o[1], o[2]) = None
    ]_vars

\* a window holding a value away from the corner written at its top right
\* corner
C22_Witness ==
  /\ pc = "written"
  /\ call.op = "set"
  /\ call.dx = 3
  /\ call.dy = -3
  /\ call.value = Some(Wall)
  /\ get(window, 3, -3) = Some(Wall)
  /\ get(window, -3, 3) = None
  /\ get(window, 1, 0) = Some(Door)

\* C23: row(dy)[i] = get(i-3, dy) and col(dx)[i] = get(dx, i-3) for i in
\* 0..6, center() = get(0, 0), and iter yields exactly 49 pairs
\* ((dx, dy), get(dx, dy)) in row-major order, dy outermost, each offset once.
C23_AccessorsAgreeWithGet ==
  pc = "read" =>
    CASE call.op = "row" ->
           /\ Len(call.returned) = 7
           /\ call.arg[1] \in Offsets =>
                \A i \in 0..6 : call.returned[i + 1] = get(window, i - 3, call.arg[1])
      [] call.op = "col" ->
           /\ Len(call.returned) = 7
           /\ call.arg[1] \in Offsets =>
                \A i \in 0..6 : call.returned[i + 1] = get(window, call.arg[1], i - 3)
      [] call.op = "center" -> call.returned = get(window, 0, 0)
      [] call.op = "iter" ->
           /\ Len(call.returned) = WindowCells
           /\ \A j \in 0..6, i \in 0..6 :
                call.returned[7 * j + i + 1] =
                   <<<<i - 3, j - 3>>, get(window, i - 3, j - 3)>>
           /\ {call.returned[k][1] : k \in 1..WindowCells} = AllOffsets
      [] call.op = "get" -> call.returned = get(window, call.arg[1], call.arg[2])

\* col(2) read from a window whose value at (2, -1) was written by set
C23_Witness ==
  /\ pc = "read"
  /\ call.op = "col"
  /\ call.arg = <<2>>
  /\ call.returned[3] = Some(Wall)
  /\ get(window, 2, -1) = Some(Wall)
  /\ Neighborhood7x7_row(window, -1)[6] = Some(Wall)
  /\ Neighborhood7x7_iter(window)[20] = <<<<2, -1>>, Some(Wall)>>

----------------------------------------------------------------------------
(* Properties of the fix-up (SpecFixup)                                    *)

\* each corner cell with the two edge cells next to it
CornerEdges == {<<1, 2, 4>>, <<3, 2, 6>>, <<7, 8, 4>>, <<9, 8, 6>>}

\* C24: in the fixed-up form of a raw rule a corner cell is a wildcard
\* whenever either of the two edge cells next to it is absent; the centre
\* and the four edge cells are never changed, and a corner whose two edges
\* are both present keeps its raw value. Fixing up twice changes nothing.
C24_FixupCorners ==
  /\ pc \in {"fixed", "done"} =>
       LET raw == raw_form(rules[1])
           fixed == IF pc = "fixed" THEN call.returned ELSE call.first
       IN /\ \A c \in CornerEdges :
               IF ~rules[1][c[2]] \/ ~rules[1][c[3]]
               THEN fixed[c[1]] = "wildcard"
               ELSE fixed[c[1]] = raw[c[1]]
          /\ \A k \in {2, 4, 5, 6, 8} : fixed[k] = raw[k]
          /\ {k \in RuleCells : fixed[k] = "wildcard"} = wildcards(rules[1])
  /\ pc = "done" => call.returned = call.first

\* the rule with only the top edge absent: both top corners are wildcards,
\* the bottom corners keep their values
C24_Witness ==
  /\ pc = "done"
  /\ rules[1] = [k \in RuleCells |-> k \notin {2, 7}]
  /\ call.returned[1] = "wildcard"
  /\ call.returned[3] = "wildcard"
  /\ call.returned[7] = "absent"
  /\ call.returned[9] = "present"

\* C27: for every observed neighbourhood at most one rule of the shipped
\* catalog matches it, raw or with corner wildcards, so the complexity
\* comparison and the tie-break never change the result of match_rule.
C27_AtMostOneRuleMatches ==
  (pc = "done" /\ call = NoCall /\ rules = ADJACENCY_RULES) =>
     /\ Cardinality(hits) <= 1
     /\ Cardinality({i \in 0..(Len(rules) - 1) :
                        wildcard_matches(neighborhood, rules[i + 1])}) <= 1
     /\ \A i, j \in 1..Len(rules) : rules[i] = rules[j] => i = j
     /\ \A i \in hits : best_match = Some(i)
     /\ hits = {} => best_match = None

\* the shipped catalog matched against a neighbourhood equal to one of its
\* rules other than the all-present one
C27_Witness ==
  /\ pc = "done"
  /\ call = NoCall
  /\ rules = ADJACENCY_RULES
  /\ Cardinality(hits) = 1
  /\ neighborhood # AllPresent
  /\ is_some(best_match)
  /\ unwrap(best_match) \in hits

----------------------------------------------------------------------------
(* Properties of the collision layer (SpecCollision)                       *)

OnBorder(l, p) ==
  p[1] = 0 \/ p[1] = l.nrows - 1 \/ p[2] = 0 \/ p[2] = l.ncols - 1

\* bottom 2, right 3, top 4, left 5, in that order
BorderExit(l, p) ==
  IF p[1] = l.nrows - 1 THEN 2
  ELSE IF p[2] = l.ncols - 1 THEN 3
  ELSE IF p[1] = 0 THEN 4
  ELSE 5

\* C28: in the collision layer a cell has a value in 2..5 only if it is a
\* door cell on the border of the layout, and the value encodes the border
\* it touches (bottom 2, right 3, top 4, left 5, checked in that order); a
\* door cell not on the border does not carry an exit value.
C28_ExitOnlyAtBorderDoor ==
  (pc = "done" /\ call.op = "collision_layer") =>
     \A p \in Cells(layer) :
        /\ out.data[p] \in ExitIds =>
             /\ layer.data[p] = Door
             /\ OnBorder(layer, p)
             /\ out.data[p] = BorderExit(layer, p)
        /\ (layer.data[p] = Door /\ ~OnBorder(layer, p)) =>
             out.data[p] \notin ExitIds

----------------------------------------------------------------------------
(* Properties of the attack controller (SpecAttack)                        *)

Enters(tag) == state'.tag = tag /\ state.tag # tag

\* C29: under update the controller follows Ready -> Windup -> Attacking ->
\* Cooldown -> Ready: Attacking is entered only from Windup, Cooldown only
\* from Attacking, StartAttack is returned only in a windup begun by
\* StartWindup with no Ready state since, update never leaves Windup before
\* 0.2 of accumulated time, only make_staggered enters Staggered, from which
\* update returns only to Ready; make_staggered returns true exactly when
\* the controller was not already Staggered and never shortens a stagger.
C29_AttackCycle ==
  [][/\ Enters("Windup") =>
          state.tag = "Ready" /\ call'.op = "update" /\ event' = "StartWindup"
     /\ Enters("Attacking") =>
          state.tag = "Windup" /\ call'.op = "update" /\ event' = "StartAttack"
     /\ Enters("Cooldown") => state.tag = "Attacking" /\ call'.op = "update"
     /\ Enters("Ready") =>
          state.tag \in {"Cooldown", "Staggered"} /\ call'.op = "update"
     /\ Enters("Staggered") => call'.op = "make_staggered"
     /\ call'.op = "update" =>
          /\ event' = "StartAttack" => (state.tag = "Windup" /\ Enters("Attacking"))
          /\ event' = "StartWindup" => (state.tag = "Ready" /\ Enters("Windup"))
          /\ (state.tag = "Windup" /\ state'.tag # "Windup") =>
               state.current_time >= WindupTime
          /\ state.tag = "Staggered" => state'.tag \in {"Staggered", "Ready"}
     /\ call'.op = "make_staggered" =>
          /\ state'.tag = "Staggered"
          /\ call'.returned <=> state.tag # "Staggered"
          /\ state'.duration_left >= call'.duration
          /\ state.tag = "Staggered" => state'.duration_left >= state.duration_left
    ]_vars

\* update has just returned StartAttack after a windup of 0.2 or more
C29_Witness ==
  /\ call.op = "update"
  /\ event = "StartAttack"
  /\ state.tag = "Attacking"
  /\ state.windup_duration >= WindupTime
  /\ state.duration_left = AttackTime

----------------------------------------------------------------------------
(* Properties of the RoomManager (SpecRooms)                               *)

\* C30: with a non-empty room pool, every change_room call leaves
\* current_room a key of rooms (get_current_room does not fail), removes and
\* replaces no room, and a call for a position visited before leaves every
\* room, the enemies of the re-entered one included, as it was.
C30_RoomsPersist ==
  [][(room_pool # <<>> /\ call'.op = "change_room") =>
       /\ pc' = "changed"
       /\ current_room' = call'.position
       /\ current_room' \in DOMAIN rooms'
       /\ "room" \in DOMAIN get_current_room([room_pool |-> room_pool',
                                              rooms |-> rooms',
                                              current_room |-> current_room'])
       /\ DOMAIN rooms \subseteq DOMAIN rooms'
       /\ \A p \in DOMAIN rooms : rooms'[p] = rooms[p]
       /\ call'.position \in DOMAIN rooms => rooms' = rooms]_vars

\* the player is back in the spawn room after visiting another one, and the
\* enemy hurt there before is as it was left
C30_Witness ==
  /\ pc = "changed"
  /\ call = [op |-> "change_room", position |-> <<0, 0, 0>>]
  /\ room_pool # <<>>
  /\ current_room = <<0, 0, 0>>
  /\ Cardinality(DOMAIN rooms) > 1
  /\ rooms[<<0, 0, 0>>].enemies[1].health < EnemyHealth

====
